---- MODULE Spec2Model ----
(***************************************************************************)
(* The conversational lead-qualification engine of the Gimmicks CRM:       *)
(* the deterministic dialogue handler (server.py,                          *)
(* process_intelligent_conversation) and the AI handler (bot_service.py,   *)
(* process_ai_conversation) over the collections conversation_states,      *)
(* leads, conversations, quotes and products.                              *)
(*                                                                         *)
(* A text is a tuple of one-character strings, so that strip(), lower(),   *)
(* the regular expressions and the keyword tests are computed on the       *)
(* characters, as the code computes them.                                  *)
(***************************************************************************)
EXTENDS Naturals, Integers, Sequences, FiniteSets, TLC

VARIABLES
  strategy,             \* which handler serves the deployment: "det" or "ai"
  products,             \* db.products (read-only for the bot)
  conversation_states,  \* db.conversation_states: phone_number -> document
  leads,                \* db.leads: sequence of documents
  conversations,        \* db.conversations: sequence of documents
  quotes,               \* db.quotes: sequence of documents
  sent,                 \* send attempts of the turn handled last, in order
  last,                 \* what the turn handled last was and did
  hist,                 \* per phone number: what has happened so far
  turns,                \* number of inbound messages taken so far
  tasks                 \* handlings in flight (interleaved specification)

vars == <<strategy, products, conversation_states, leads, conversations,
          quotes, sent, last, hist, turns, tasks>>

-----------------------------------------------------------------------------
(* Bounds of the model *)

\* inbound messages taken in one behaviour
MaxTurns == 2

\* handlings that may be in flight together (interleaved specification)
MaxInFlight == 2

\* inbound messages taken in one behaviour where calls may fail
MaxFaultTurns == 1

\* inbound messages taken in one behaviour of the interleaved specification
MaxConcTurns == 2

\* the messages of one conversation of the customer who always gives valid input
MaxHappyTurns == 12

\* the messages handled in a behaviour of the AI handler over StageAiResults
MaxStageTurns == 1

\* the messages handled in a behaviour that exercises the intent classifier
MaxIntentTurns == 2

Phones == {"p1", "p2"}

-----------------------------------------------------------------------------
(* Characters and texts *)

Digits == {"0", "1", "2", "3", "4", "5", "6", "7", "8", "9"}

LowerLetters ==
  {"a", "b", "c", "d", "e", "f", "g", "h", "i", "j", "k", "l", "m", "n", "o",
   "p", "q", "r", "s", "t", "u", "v", "w", "x", "y", "z",
   "á", "é", "í", "ó", "ú", "ñ"}

UpperLetters ==
  <<"A", "B", "C", "D", "E", "F", "G", "H", "I", "J", "K", "L", "M", "N", "O",
    "P", "Q", "R", "S", "T", "U", "V", "W", "X", "Y", "Z",
    "Á", "É", "Í", "Ó", "Ú", "Ñ">>

LowerOfUpper ==
  <<"a", "b", "c", "d", "e", "f", "g", "h", "i", "j", "k", "l", "m", "n", "o",
    "p", "q", "r", "s", "t", "u", "v", "w", "x", "y", "z",
    "á", "é", "í", "ó", "ú", "ñ">>

\* str.lower() of one character
UpperToLower ==
  [c \in {UpperLetters[i] : i \in 1..Len(UpperLetters)} |->
     LowerOfUpper[CHOOSE i \in 1..Len(UpperLetters) : UpperLetters[i] = c]]

\* the class \w of Python's re on str
WordChars == LowerLetters \cup DOMAIN UpperToLower \cup Digits \cup {"_"}

\* the class [\w\.-]
EmailChars == WordChars \cup {".", "-"}

Whitespace == {" "}

MinOf(S) == CHOOSE x \in S : \A y \in S : x <= y
MaxOf(S) == CHOOSE x \in S : \A y \in S : y <= x

\* str.strip()
Strip(s) ==
  LET keep == {i \in 1..Len(s) : s[i] \notin Whitespace}
  IN  IF keep = {} THEN <<>> ELSE SubSeq(s, MinOf(keep), MaxOf(keep))

RECURSIVE Lower(_)
\* str.lower()
Lower(s) ==
  IF s = <<>> THEN <<>>
  ELSE <<IF Head(s) \in DOMAIN UpperToLower THEN UpperToLower[Head(s)] ELSE Head(s)>>
       \o Lower(Tail(s))

\* kw in s
Contains(s, kw) ==
  \E i \in 1..(Len(s) + 1 - Len(kw)) : SubSeq(s, i, i + Len(kw) - 1) = kw

\* the end of the longest run of characters of class C that starts at i
\* (i - 1 when s[i] is not of the class)
RunEnd(s, i, C) ==
  MaxOf({j \in (i - 1)..Len(s) : \A t \in i..j : s[t] \in C})

\* the start of the longest run of characters of class C that ends at i
\* (i + 1 when s[i] is not of the class)
RunStart(s, i, C) ==
  MinOf({j \in 1..(i + 1) : \A t \in j..i : s[t] \in C})

\* re.search(r'\b(\d+)\b', s): the first run of word characters that is
\* all digits; <<>> when there is none
NumberMatch(s) ==
  LET starts == {i \in 1..Len(s) :
                   /\ s[i] \in Digits
                   /\ (i = 1 \/ s[i - 1] \notin WordChars)
                   /\ RunEnd(s, i, Digits) = RunEnd(s, i, WordChars)}
  IN  IF starts = {} THEN <<>>
      ELSE SubSeq(s, MinOf(starts), RunEnd(s, MinOf(starts), Digits))

\* the match of [\w\.-]+@[\w\.-]+\.\w+ around the "@" at position k
EmailAround(s, k) ==
  LET a  == RunStart(s, k - 1, EmailChars)
      e  == RunEnd(s, k + 1, EmailChars)
      ds == {d \in (k + 2)..e :
               s[d] = "." /\ d < Len(s) /\ s[d + 1] \in WordChars}
  IN  IF a = k \/ ds = {} THEN <<>>
      ELSE SubSeq(s, a, RunEnd(s, MaxOf(ds) + 1, WordChars))

\* re.search(r'[\w\.-]+@[\w\.-]+\.\w+', s); <<>> when there is no match
EmailMatch(s) ==
  LET ats == {k \in 1..Len(s) : s[k] = "@" /\ EmailAround(s, k) # <<>>}
  IN  IF ats = {} THEN <<>> ELSE EmailAround(s, MinOf(ats))

-----------------------------------------------------------------------------
(* Documents *)

\* {}
EmptyDict == [k \in {} |-> <<>>]

\* d.get(k): the value, or <<>> (falsy) when the key is absent
Get(d, k) == IF k \in DOMAIN d THEN d[k] ELSE <<>>

\* bool(d.get(k))
Has(d, k) == k \in DOMAIN d /\ d[k] # <<>>

\* d[k] = v
Put(d, k, v) == [x \in DOMAIN d \cup {k} |-> IF x = k THEN v ELSE d[x]]

\* {"$set": updates} on a document
SetFields(doc, updates) ==
  [k \in DOMAIN doc \cup DOMAIN updates |->
     IF k \in DOMAIN updates THEN updates[k] ELSE doc[k]]

\* the first index of a sequence of documents that matches, 0 when none does
FindOne(coll, phone_number) ==
  LET hits == {i \in 1..Len(coll) : coll[i].phone_number = phone_number}
  IN  IF hits = {} THEN 0 ELSE MinOf(hits)

\* update_one({"phone_number": p}, {"$set": updates}) on a sequence of documents
UpdateOne(coll, phone_number, updates) ==
  LET i == FindOne(coll, phone_number)
  IN  IF i = 0 THEN coll ELSE [coll EXCEPT ![i] = SetFields(@, updates)]

-----------------------------------------------------------------------------
(* Constants of the dialogue *)

CONVERSATION_STEPS ==
  {"greeting", "identify_need", "collect_name", "collect_empresa",
   "collect_ciudad", "collect_correo", "collect_producto", "collect_cantidad",
   "collect_fecha", "collect_presupuesto", "collect_personalizacion",
   "confirm_data", "send_catalog", "generate_quote", "transfer_human"}

REQUEST_TYPES ==
  << [type |-> "cotizacion", keywords |->
        {<<"c","o","t","i","z","a">>,
         <<"p","r","e","c","i","o">>,
         <<"c","u","a","n","t","o">>,
         <<"c","u","e","s","t","a">>,
         <<"v","a","l","o","r">>,
         <<"c","o","s","t","o">>,
         <<"t","a","r","i","f","a">>}],
     [type |-> "catalogo", keywords |->
        {<<"c","a","t","a","l","o","g","o">>,
         <<"c","a","t","á","l","o","g","o">>,
         <<"p","r","o","d","u","c","t","o","s">>,
         <<"v","e","r">>,
         <<"m","o","s","t","r","a","r">>,
         <<"t","i","e","n","e","n">>,
         <<"o","f","r","e","c","e","n">>}],
     [type |-> "ideas", keywords |->
        {<<"i","d","e","a">>,
         <<"s","u","g","e","r","e","n","c","i","a">>,
         <<"r","e","c","o","m","i","e","n","d","a">>,
         <<"q","u","é"," ","m","e">>,
         <<"o","p","c","i","o","n","e","s">>,
         <<"a","l","t","e","r","n","a","t","i","v","a","s">>,
         <<"a","y","u","d","a">>}],
     [type |-> "temporada", keywords |->
        {<<"n","a","v","i","d","a","d">>,
         <<"s","a","n"," ","v","a","l","e","n","t","i","n">>,
         <<"v","a","l","e","n","t","í","n">>,
         <<"d","í","a"," ","d","e">>,
         <<"m","a","d","r","e">>,
         <<"p","a","d","r","e">>,
         <<"p","l","a","y","a">>,
         <<"v","e","r","a","n","o">>,
         <<"e","v","e","n","t","o">>,
         <<"f","i","e","s","t","a","s">>,
         <<"h","a","l","l","o","w","e","e","n">>}],
     [type |-> "ejecutivo", keywords |->
        {<<"e","j","e","c","u","t","i","v","o">>,
         <<"c","o","r","p","o","r","a","t","i","v","o">>,
         <<"e","m","p","r","e","s","a">>,
         <<"e","m","p","r","e","s","a","r","i","a","l">>,
         <<"p","r","e","m","i","u","m">>,
         <<"l","u","j","o">>,
         <<"r","e","g","a","l","o"," ","c","o","r","p","o","r","a","t","i","v","o">>}],
     [type |-> "urgente", keywords |->
        {<<"u","r","g","e","n","t","e">>,
         <<"r","á","p","i","d","o">>,
         <<"p","r","o","n","t","o">>,
         <<"m","a","ñ","a","n","a">>,
         <<"h","o","y">>,
         <<"i","n","m","e","d","i","a","t","o">>,
         <<"e","x","p","r","e","s","s">>,
         <<"y","a"," ","m","i","s","m","o">>}] >>

step_field_map ==
  [s \in {"collect_name", "collect_empresa", "collect_ciudad", "collect_correo",
          "collect_producto", "collect_cantidad", "collect_fecha",
          "collect_presupuesto", "collect_personalizacion"} |->
     CASE s = "collect_name" -> "nombre"
       [] s = "collect_empresa" -> "empresa"
       [] s = "collect_ciudad" -> "ciudad"
       [] s = "collect_correo" -> "correo"
       [] s = "collect_producto" -> "producto"
       [] s = "collect_cantidad" -> "cantidad"
       [] s = "collect_fecha" -> "fecha_entrega"
       [] s = "collect_presupuesto" -> "presupuesto"
       [] s = "collect_personalizacion" -> "personalizacion"]

\* the same list without the accented spelling
Affirmations_Unaccented ==
  {<<"s","i">>, <<"s">>, <<"c","o","r","r","e","c","t","o">>,
   <<"o","k">>, <<"y","e","s">>, <<"e","s","t","a"," ","b","i","e","n">>,
   <<"c","o","n","f","i","r","m","o">>}

Affirmations ==
  {<<"s","i">>, <<"s","í">>, <<"s">>, <<"c","o","r","r","e","c","t","o">>,
   <<"o","k">>, <<"y","e","s">>, <<"e","s","t","á"," ","b","i","e","n">>,
   <<"c","o","n","f","i","r","m","o">>}

\* the same list with an undecided answer accepted as a negation
Negations_Loose ==
  {<<"n","o">>, <<"n">>, <<"c","o","r","r","e","g","i","r">>,
   <<"c","a","m","b","i","a","r">>, <<"t","a","l"," ","v","e","z">>}

Negations ==
  {<<"n","o">>, <<"n">>, <<"c","o","r","r","e","g","i","r">>,
   <<"c","a","m","b","i","a","r">>}

-----------------------------------------------------------------------------
(* Pure functions of server.py *)

RECURSIVE FirstMatchingType(_, _)
FirstMatchingType(types, message_lower) ==
  IF types = <<>> THEN "general"
  ELSE IF \E kw \in Head(types).keywords : Contains(message_lower, kw)
       THEN Head(types).type
       ELSE FirstMatchingType(Tail(types), message_lower)

identify_request_type_Cased(message) == FirstMatchingType(REQUEST_TYPES, Strip(message))

identify_request_type(message) == FirstMatchingType(REQUEST_TYPES, Strip(Lower(message)))

\* the extraction without the scan for an email: only the field of the step
extract_data_StepOnly(message_text, current_step, collected_data) ==
  IF current_step \notin DOMAIN step_field_map THEN collected_data
  ELSE Put(collected_data, step_field_map[current_step], Strip(message_text))

\* the extraction that takes the message handled at collect_correo for a
\* product as well
extract_data_ProductAtCorreo(message_text, current_step, collected_data) ==
  LET message      == Strip(message_text)
      email_match  == EmailMatch(message)
      number_match == NumberMatch(message)
      cd1 == IF email_match # <<>> THEN Put(collected_data, "correo", email_match)
             ELSE collected_data
  IN  IF current_step \notin DOMAIN step_field_map THEN cd1
      ELSE LET field == step_field_map[current_step]
           IN  IF field = "cantidad" /\ number_match # <<>>
                 THEN Put(cd1, field, number_match)
               ELSE IF field = "correo" /\ email_match # <<>>
                 THEN Put(cd1, "producto", message)
               ELSE IF field = "correo" /\ email_match = <<>>
                 THEN Put(Put(cd1, field, message), "producto", message)
               ELSE Put(cd1, field, message)

\* the extraction without the fallback for correo: at collect_correo only an
\* email-shaped token is stored
extract_data_NoFallback(message_text, current_step, collected_data) ==
  LET message      == Strip(message_text)
      email_match  == EmailMatch(message)
      number_match == NumberMatch(message)
      cd1 == IF email_match # <<>> THEN Put(collected_data, "correo", email_match)
             ELSE collected_data
  IN  IF current_step \notin DOMAIN step_field_map THEN cd1
      ELSE LET field == step_field_map[current_step]
           IN  IF field = "cantidad" /\ number_match # <<>>
                 THEN Put(cd1, field, number_match)
               ELSE IF field = "correo" THEN cd1
               ELSE Put(cd1, field, message)

extract_data_from_message(message_text, current_step, collected_data) ==
  LET message      == Strip(message_text)
      email_match  == EmailMatch(message)
      number_match == NumberMatch(message)
      cd1 == IF email_match # <<>> THEN Put(collected_data, "correo", email_match)
             ELSE collected_data
  IN  IF current_step \notin DOMAIN step_field_map THEN cd1
      ELSE LET field == step_field_map[current_step]
           IN  IF field = "cantidad" /\ number_match # <<>>
                 THEN Put(cd1, field, number_match)
               ELSE IF field = "correo" /\ email_match # <<>> THEN cd1
               ELSE IF field = "correo" /\ email_match = <<>> THEN Put(cd1, field, message)
               ELSE Put(cd1, field, message)

-----------------------------------------------------------------------------
(* Numbers in texts *)

DigitValue ==
  [c \in Digits |->
     CASE c = "0" -> 0 [] c = "1" -> 1 [] c = "2" -> 2 [] c = "3" -> 3
       [] c = "4" -> 4 [] c = "5" -> 5 [] c = "6" -> 6 [] c = "7" -> 7
       [] c = "8" -> 8 [] c = "9" -> 9]

RECURSIVE ToInt(_)
\* int() of a run of digits
ToInt(ds) ==
  IF ds = <<>> THEN 0 ELSE 10 * ToInt(SubSeq(ds, 1, Len(ds) - 1)) + DigitValue[ds[Len(ds)]]

\* re.search(r'\d+', s).group(); <<>> when there is no digit
FirstDigitRun(s) ==
  LET at == {i \in 1..Len(s) : s[i] \in Digits}
  IN  IF at = {} THEN <<>> ELSE SubSeq(s, MinOf(at), RunEnd(s, MinOf(at), Digits))

\* Mongo's {"$regex": pattern, "$options": "i"} for a pattern of letters,
\* digits, spaces, "@", "-" and ".", where "." stands for any character
RegexFound(text, pattern) ==
  LET t == Lower(text)
      q == Lower(pattern)
  IN  \E i \in 1..(Len(t) + 1 - Len(q)) :
         \A j \in 1..Len(q) : q[j] = "." \/ t[i + j - 1] = q[j]

\* cursor.limit(n).to_list(n)
Limit(coll, n) == SubSeq(coll, 1, IF Len(coll) < n THEN Len(coll) ELSE n)

-----------------------------------------------------------------------------
(* The database, as the handlers see it: d = [states, leads, conversations,
   quotes, products].  A handler runs with one fault f: the call of that name
   raises when the turn reaches it ("none": no call raises). *)

DetFaults ==
  {"load", "create", "save_flag", "catalog", "quote", "send_quote",
   "transfer_state", "transfer_lead", "save"}

\* send_bot_message of the quote text: a failure of the delivery is caught
\* inside and logged, and the attempt is all that is left of it
SendQuote(text, f) == IF f = "send_quote" THEN text \o "_undelivered" ELSE text

\* doc.get(k, default)
DocGet(doc, k, default) == IF k \in DOMAIN doc THEN doc[k] ELSE default

\* the upsert keyed by no phone number: every document is written
UpsertState_Unkeyed(states, phone_number, updates) ==
  [q \in DOMAIN states \cup {phone_number} |->
     SetFields(IF q \in DOMAIN states THEN states[q]
               ELSE [phone_number |-> phone_number], updates)]

\* db.conversation_states.update_one({"phone_number": p}, {"$set": updates}, upsert=True)
UpsertState(states, phone_number, updates) ==
  [q \in DOMAIN states \cup {phone_number} |->
     IF q # phone_number THEN states[q]
     ELSE SetFields(IF q \in DOMAIN states THEN states[q]
                    ELSE [phone_number |-> phone_number], updates)]

update_conversation_state(states, phone_number, updates) ==
  UpsertState(states, phone_number, updates)

\* db.conversation_states.update_one({"phone_number": p}, {"$set": updates})
UpdateState(states, phone_number, updates) ==
  IF phone_number \in DOMAIN states
  THEN [states EXCEPT ![phone_number] = SetFields(@, updates)]
  ELSE states

RECURSIVE ItemsOf_Strict(_, _, _)
\* the line items with the tiers starting above 100 and above 300
ItemsOf_Strict(product, quantities, base_price) ==
  IF quantities = <<>> THEN <<>>
  ELSE LET qty == Head(quantities)
           unit_price == IF qty > 300 THEN base_price * 85
                         ELSE IF qty > 100 THEN base_price * 90
                         ELSE base_price * 100
       IN  <<[product_name |-> product.name, quantity |-> qty,
              unit_price |-> unit_price, subtotal |-> unit_price * qty]>>
           \o ItemsOf_Strict(product, Tail(quantities), base_price)

RECURSIVE ItemsOf(_, _, _)
\* the line items of one product, one for each quantity
ItemsOf(product, quantities, base_price) ==
  IF quantities = <<>> THEN <<>>
  ELSE LET qty == Head(quantities)
           \* unit prices are in hundredths of the price unit: base * 0.85
           \* is base * 85
           unit_price == IF qty >= 300 THEN base_price * 85
                         ELSE IF qty >= 100 THEN base_price * 90
                         ELSE base_price * 100
       IN  <<[product_name |-> product.name, quantity |-> qty,
              unit_price |-> unit_price, subtotal |-> unit_price * qty]>>
           \o ItemsOf(product, Tail(quantities), base_price)

RECURSIVE QuoteItems(_, _)
QuoteItems(prods, quantities) ==
  IF prods = <<>> THEN <<>>
  ELSE ItemsOf(Head(prods), quantities,
               IF Head(prods).price = 0 THEN 500 ELSE Head(prods).price)
       \o QuoteItems(Tail(prods), quantities)

RECURSIVE SumSubtotals(_)
SumSubtotals(items) ==
  IF items = <<>> THEN 0 ELSE Head(items).subtotal + SumSubtotals(Tail(items))

\* quantities = [cantidad] if cantidad else [50, 100, 300]
QuoteQuantities(collected_data) ==
  LET cantidad_str == Get(collected_data, "cantidad")
      run          == FirstDigitRun(cantidad_str)
      \* None and 0 are both falsy
      cantidad     == IF run # <<>> THEN ToInt(run) ELSE 0
  IN  IF cantidad # 0 THEN <<cantidad>> ELSE <<50, 100, 300>>

\* the products the quote is made of
QuoteProducts(prods, collected_data) ==
  LET product_need == Lower(Get(collected_data, "producto"))
      Hit(x)       == RegexFound(x.name, product_need)
      found        == Limit(SelectSeq(prods, Hit), 5)
  IN  IF found # <<>> THEN found ELSE Limit(prods, 3)

\* the quote text is returned and the record is not stored
generate_quote_message_Unsaved(d, phone_number, collected_data, f) ==
  [quotes |-> d.quotes,
   text   |-> IF f = "quote" THEN "quote_error"
              ELSE IF QuoteProducts(d.products, collected_data) = <<>>
                THEN "quote_no_products"
              ELSE "quote"]

\* returns [quotes, text]; every exception is caught inside
generate_quote_message(d, phone_number, collected_data, f) ==
  IF f = "quote" THEN [quotes |-> d.quotes, text |-> "quote_error"]
  ELSE LET prods == QuoteProducts(d.products, collected_data)
           items == QuoteItems(Limit(prods, 3), QuoteQuantities(collected_data))
       IN  IF prods = <<>>
           THEN [quotes |-> d.quotes, text |-> "quote_no_products"]
           ELSE [quotes |-> Append(d.quotes,
                              [phone_number    |-> phone_number,
                               conversation_id |-> FindOne(d.conversations, phone_number),
                               status          |-> "auto",
                               client_name     |-> Get(collected_data, "nombre"),
                               items           |-> items,
                               total           |-> SumSubtotals(items)]),
                 text |-> "quote"]

\* returns the text; every exception is caught inside
get_catalog_message(d, request_type, product_need, f) ==
  IF f = "catalog" THEN "catalog_error"
  ELSE IF d.products = <<>> THEN "catalog_updating"
  ELSE "catalog"

\* returns [states, leads, conversations, text]; every exception is caught inside
transfer_to_human(d, phone_number, collected_data, f) ==
  IF f = "transfer_state"
  THEN [states |-> d.states, leads |-> d.leads, conversations |-> d.conversations,
        text |-> "transfer_error"]
  ELSE LET states1 == UpdateState(d.states, phone_number,
                                  [transferred_to_human |-> TRUE])
       IN  IF f = "transfer_lead"
           THEN [states |-> states1, leads |-> d.leads,
                 conversations |-> d.conversations, text |-> "transfer_error"]
           ELSE [states |-> states1,
                 leads  |-> UpdateOne(d.leads, phone_number,
                              [name           |-> Get(collected_data, "nombre"),
                               funnel_stage   |-> "qualified",
                               classification |-> "caliente"]),
                 conversations |->
                   IF Has(collected_data, "nombre")
                   THEN UpdateOne(d.conversations, phone_number,
                                  [contact_name |-> collected_data["nombre"]])
                   ELSE d.conversations,
                 text |-> "transfer_ok"]

-----------------------------------------------------------------------------
(* process_intelligent_conversation (server.py) *)

\* what one branch of the state machine leaves behind
Branch(d, sent_, request_type, collected_data, next_step, response) ==
  [d |-> d, sent |-> sent_, request_type |-> request_type,
   collected_data |-> collected_data, next_step |-> next_step,
   response |-> response, raised |-> FALSE, quote_calls |-> 0]

\* a catalog is sent and marked as sent, then the name is asked
SendCatalog(d, phone_number, catalog, f, request_type, collected_data, response) ==
  LET b == Branch(d, <<catalog>>, request_type, collected_data, "collect_name", response)
  IN  IF f = "save_flag" THEN [b EXCEPT !.raised = TRUE]
      ELSE [b EXCEPT !.d.states =
              update_conversation_state(@, phone_number, [catalog_sent |-> TRUE])]

IdentifyNeed(d, phone_number, message_text, f, collected_data) ==
  LET msg_stripped == Strip(message_text)
      request_type ==
        CASE msg_stripped = <<"1">> -> "cotizacion"
          [] msg_stripped = <<"2">> -> "catalogo"
          [] msg_stripped = <<"3">> -> "ideas"
          [] msg_stripped = <<"4">> -> "temporada"
          [] msg_stripped = <<"5">> -> "ejecutivo"
          [] msg_stripped = <<"6">> -> "urgente"
          [] OTHER -> identify_request_type(message_text)
  IN  CASE request_type = "catalogo" ->
             SendCatalog(d, phone_number,
                         get_catalog_message(d, request_type, message_text, f), f,
                         request_type, collected_data, "ask_nombre")
        [] request_type = "cotizacion" ->
             Branch(d, <<>>, request_type, collected_data, "collect_name", "ask_nombre")
        [] request_type = "ideas" ->
             Branch(d, <<>>, request_type, collected_data, "collect_producto", "ask_ocasion")
        [] request_type \in {"temporada", "ejecutivo"} ->
             SendCatalog(d, phone_number,
                         get_catalog_message(d, request_type, <<>>, f), f,
                         request_type, collected_data, "ask_nombre")
        [] request_type = "urgente" ->
             Branch(d, <<>>, request_type, collected_data, "collect_name", "ask_nombre")
        [] OTHER ->
             Branch(d, <<>>, request_type, collected_data, "identify_need", "reprompt_need")

CollectProducto(d, phone_number, message_text, f, state, request_type, collected_data) ==
  LET cd   == Put(collected_data, "producto", Strip(message_text))
      next == IF ~Has(cd, "nombre") THEN "collect_name" ELSE "collect_cantidad"
      resp == IF ~Has(cd, "nombre") THEN "ask_nombre" ELSE "ask_cantidad"
  IN  IF DocGet(state, "catalog_sent", FALSE) = FALSE
      THEN [SendCatalog(d, phone_number,
                        get_catalog_message(d, "general", message_text, f), f,
                        request_type, cd, resp)
              EXCEPT !.next_step = next]
      ELSE Branch(d, <<>>, request_type, cd, next, resp)

NoPersonalizacion ==
  {<<"n","o">>, <<"n","i","n","g","u","n","a">>, <<"n","/","a">>,
   <<"n","a","d","a">>,
   <<"s","i","n"," ","p","e","r","s","o","n","a","l","i","z","a","c","i","ó","n">>}

SinPersonalizacion ==
  <<"S","i","n"," ","p","e","r","s","o","n","a","l","i","z","a","c","i","ó","n">>

\* the affirmation branch of confirm_data, after the quote: q is what
\* generate_quote_message returned
AfterQuote(d, q, phone_number, f, request_type, collected_data) ==
  IF f = "save_flag"
  THEN [Branch([d EXCEPT !.quotes = q.quotes],
               <<"generating", SendQuote(q.text, f)>>, request_type,
               collected_data, "confirm_data", "None")
          EXCEPT !.quote_calls = 1, !.raised = TRUE]
  ELSE [d              |-> [d EXCEPT !.quotes = q.quotes,
                                     !.states = update_conversation_state(
                                                  @, phone_number,
                                                  [quote_generated |-> TRUE])],
        sent           |-> <<"generating", SendQuote(q.text, f)>>,
        request_type   |-> request_type,
        collected_data |-> collected_data,
        next_step      |-> "transfer_human",
        response       |-> "None",
        raised         |-> FALSE,
        quote_calls    |-> 1]

\* the end of the affirmation branch: t is what transfer_to_human returned
AfterTransfer(b, t) ==
  IF b.raised THEN b
  ELSE [b EXCEPT !.d.states = t.states, !.d.leads = t.leads,
                 !.d.conversations = t.conversations, !.response = t.text]

\* the transfer that follows the quote of branch b
TransferAfter(b, phone_number, collected_data, f) ==
  AfterTransfer(b, transfer_to_human(b.d, phone_number, collected_data, f))

\* the affirmation branch of confirm_data
ConfirmYes(d, phone_number, f, request_type, collected_data) ==
  TransferAfter(AfterQuote(d, generate_quote_message(d, phone_number, collected_data, f),
                           phone_number, f, request_type, collected_data),
                phone_number, collected_data, f)

\* the same step with the affirmation asked again instead of acted on
ConfirmData_Reprompts(d, phone_number, message_text, f, request_type, collected_data) ==
  LET msg_lower == Lower(Strip(message_text))
  IN  IF msg_lower \in Negations
        THEN Branch(d, <<>>, request_type, collected_data, "correct_data", "ask_correction")
      ELSE Branch(d, <<>>, request_type, collected_data, "confirm_data", "reprompt_confirm")

ConfirmData(d, phone_number, message_text, f, request_type, collected_data) ==
  LET msg_lower == Lower(Strip(message_text))
  IN  IF msg_lower \in Affirmations
        THEN ConfirmYes(d, phone_number, f, request_type, collected_data)
      ELSE IF msg_lower \in Negations
        THEN Branch(d, <<>>, request_type, collected_data, "correct_data", "ask_correction")
      ELSE Branch(d, <<>>, request_type, collected_data, "confirm_data", "reprompt_confirm")

correction_map ==
  <<"collect_name", "collect_empresa", "collect_ciudad", "collect_correo",
    "collect_producto", "collect_cantidad", "collect_fecha",
    "collect_presupuesto", "collect_personalizacion">>

keywords_map ==
  << <<"n","o","m","b","r","e">>, <<"e","m","p","r","e","s","a">>,
     <<"c","i","u","d","a","d">>, <<"c","o","r","r","e","o">>,
     <<"p","r","o","d","u","c","t","o">>, <<"c","a","n","t","i","d","a","d">>,
     <<"f","e","c","h","a">>, <<"p","r","e","s","u","p","u","e","s","t","o">>,
     <<"p","e","r","s","o","n","a","l","i","z">> >>

CorrectData(d, message_text, request_type, collected_data) ==
  LET choice    == Strip(message_text)
      msg_lower == Lower(message_text)
      byNumber  == {i \in 1..9 : Len(choice) = 1 /\ choice[1] \in Digits
                                  /\ DigitValue[choice[1]] = i}
      byKeyword == {i \in 1..9 : Contains(msg_lower, keywords_map[i])}
      chosen    == IF byNumber # {} THEN MinOf(byNumber)
                   ELSE IF byKeyword # {} THEN MinOf(byKeyword) ELSE 0
  IN  IF chosen = 0
      THEN Branch(d, <<>>, request_type, collected_data, "correct_data", "reprompt_correction")
      ELSE Branch(d, <<>>, request_type, collected_data, correction_map[chosen],
                  "ask_correct_" \o step_field_map[correction_map[chosen]])

\* the if/elif chain on current_step
StateMachine(d, phone_number, message_text, f, state, current_step, request_type, collected_data) ==
  LET text == Strip(message_text)
      Ask(field, next_step, response) ==
        Branch(d, <<>>, request_type, Put(collected_data, field, text),
               next_step, response)
  IN  CASE current_step = "greeting" ->
             Branch(d, <<"welcome_again">>, request_type, collected_data,
                    "identify_need", "None")
        [] current_step = "identify_need" ->
             IdentifyNeed(d, phone_number, message_text, f, collected_data)
        [] current_step = "collect_name" ->
             \* message_text.strip().split()[0] raises on a blank message
             IF text = <<>>
             THEN [Branch(d, <<>>, request_type, Put(collected_data, "nombre", text),
                          current_step, "None") EXCEPT !.raised = TRUE]
             ELSE Ask("nombre", "collect_empresa", "ask_empresa")
        [] current_step = "collect_empresa" ->
             Ask("empresa", "collect_ciudad", "ask_ciudad")
        [] current_step = "collect_ciudad" ->
             Ask("ciudad", "collect_correo", "ask_correo")
        [] current_step = "collect_correo" ->
             LET cd == IF ~Has(collected_data, "correo")
                       THEN Put(collected_data, "correo", text) ELSE collected_data
             IN  IF Has(cd, "producto")
                 THEN Branch(d, <<>>, request_type, cd, "collect_cantidad", "ask_cantidad")
                 ELSE Branch(d, <<>>, request_type, cd, "collect_producto", "ask_producto")
        [] current_step = "collect_producto" ->
             CollectProducto(d, phone_number, message_text, f, state, request_type,
                             collected_data)
        [] current_step = "collect_cantidad" ->
             Ask("cantidad", "collect_fecha", "ask_fecha")
        [] current_step = "collect_fecha" ->
             Ask("fecha_entrega", "collect_presupuesto", "ask_presupuesto")
        [] current_step = "collect_presupuesto" ->
             Ask("presupuesto", "collect_personalizacion", "ask_personalizacion")
        [] current_step = "collect_personalizacion" ->
             Branch(d, <<>>, request_type,
                    Put(collected_data, "personalizacion",
                        IF Lower(text) \in NoPersonalizacion
                        THEN SinPersonalizacion ELSE text),
                    "confirm_data", "confirm_summary")
        [] current_step = "confirm_data" ->
             ConfirmData(d, phone_number, message_text, f, request_type, collected_data)
        [] current_step = "correct_data" ->
             CorrectData(d, message_text, request_type, collected_data)
        [] current_step = "transfer_human" ->
             Branch(d, <<>>, request_type, collected_data, current_step, "courtesy_more")
        [] OTHER ->
             Branch(d, <<>>, request_type, collected_data, current_step, "None")

\* what a handling leaves behind: the collections, the send attempts, and
\* whether an exception was raised inside the try and caught by it
Outcome(d, sent_, raised, extracted, quote_calls) ==
  [states |-> d.states, leads |-> d.leads, conversations |-> d.conversations,
   quotes |-> d.quotes, sent |-> sent_, raised |-> raised, caught |-> FALSE,
   extracted |-> extracted, quote_calls |-> quote_calls, reactivated |-> FALSE]

NewIntelligentState(phone_number) ==
  [phone_number |-> phone_number, current_step |-> "greeting",
   request_type |-> "None", collected_data |-> EmptyDict, catalog_sent |-> FALSE,
   quote_generated |-> FALSE, transferred_to_human |-> FALSE, message_count |-> 0]

\* the state is saved and the response is not sent
IntelligentSave_Silent(b, phone_number, msg_count, f) ==
  IF b.raised \/ f = "save"
  THEN Outcome(b.d, b.sent, TRUE, TRUE, b.quote_calls)
  ELSE Outcome(
         [b.d EXCEPT !.states =
            update_conversation_state(@, phone_number,
              [current_step   |-> b.next_step,
               collected_data |-> b.collected_data,
               request_type   |-> b.request_type,
               message_count  |-> msg_count])],
         b.sent, FALSE, TRUE, b.quote_calls)

\* the end of the try block: the response of branch b is sent and the state
\* is saved
IntelligentSave(b, phone_number, msg_count, f) ==
  IF b.raised \/ f = "save"
  THEN Outcome(b.d, b.sent, TRUE, TRUE, b.quote_calls)
  ELSE Outcome(
         [b.d EXCEPT !.states =
            update_conversation_state(@, phone_number,
              [current_step   |-> b.next_step,
               collected_data |-> b.collected_data,
               request_type   |-> b.request_type,
               message_count  |-> msg_count])],
         IF b.response # "None" THEN Append(b.sent, b.response)
         ELSE b.sent,
         FALSE, TRUE, b.quote_calls)

\* if state.get("transferred_to_human")
AlreadyTransferred_Never(state) == FALSE

AlreadyTransferred(state) == DocGet(state, "transferred_to_human", FALSE)

\* the try block from the loaded state document on
IntelligentLoaded(d, state, phone_number, message_text, f) ==
  IF AlreadyTransferred(state)
  THEN Outcome(d, <<"courtesy">>, FALSE, FALSE, 0)
  ELSE
    LET current_step   == DocGet(state, "current_step", "identify_need")
        msg_count      == DocGet(state, "message_count", 0) + 1
        collected_data ==
          extract_data_from_message(message_text, current_step,
                                    DocGet(state, "collected_data", EmptyDict))
        request_type   ==
          IF DocGet(state, "request_type", "None") = "None"
          THEN identify_request_type(message_text)
          ELSE state.request_type
    IN  IntelligentSave(
          StateMachine(d, phone_number, message_text, f, state,
                       current_step, request_type, collected_data),
          phone_number, msg_count, f)

\* the try block
IntelligentTry(d, phone_number, message_text, f) ==
  IF f = "load" THEN Outcome(d, <<>>, TRUE, FALSE, 0)
  ELSE IF phone_number \notin DOMAIN d.states THEN
    IF f = "create" THEN Outcome(d, <<>>, TRUE, FALSE, 0)
    ELSE IF f = "save"
      THEN Outcome([d EXCEPT !.states =
                      UpsertState(@, phone_number, NewIntelligentState(phone_number))],
                   <<"welcome">>, TRUE, FALSE, 0)
    ELSE Outcome([d EXCEPT !.states =
                    update_conversation_state(
                      UpsertState(@, phone_number, NewIntelligentState(phone_number)),
                      phone_number,
                      [current_step |-> "identify_need", message_count |-> 1])],
                 <<"welcome">>, FALSE, FALSE, 0)
  ELSE IntelligentLoaded(d, d.states[phone_number], phone_number, message_text, f)

\* the except block: the exception is logged and one apology is sent
IntelligentExcept(r) ==
  IF r.raised THEN [r EXCEPT !.sent = Append(@, "apology"), !.caught = TRUE] ELSE r

process_intelligent_conversation(d, phone_number, message_text, f) ==
  IntelligentExcept(IntelligentTry(d, phone_number, message_text, f))

-----------------------------------------------------------------------------
(* bot_service.py *)

AiFaults ==
  {"load", "create", "reactivate_lead", "reactivate_state", "llm", "catalog",
   "quote", "send_quote", "save", "lead_update"}

\* str.split(): the words of a text (their order does not matter where they
\* are used: the words are alternatives of one regular expression)
Words(s) ==
  {SubSeq(s, i, j) : <<i, j>> \in
     {w \in (1..Len(s)) \X (1..Len(s)) :
        /\ w[1] <= w[2]
        /\ \A t \in w[1]..w[2] : s[t] \notin Whitespace
        /\ (w[1] = 1 \/ s[w[1] - 1] \in Whitespace)
        /\ (w[2] = Len(s) \/ s[w[2] + 1] \in Whitespace)}}

search_products_by_keyword(prods, keyword, limit) ==
  IF keyword = <<>> THEN <<>>
  ELSE LET Hit(x) == \E w \in Words(Strip(keyword)) : RegexFound(x.name, w)
       IN  Limit(SelectSeq(prods, Hit), limit)

RECURSIVE validate_product_codes(_, _)
\* codes: a sequence of texts; for each, the first product whose code starts with it
validate_product_codes(prods, codes) ==
  IF codes = <<>> THEN <<>>
  ELSE LET code_clean == Strip(Head(codes))
           Hit(x) == /\ Len(x.code) >= Len(code_clean)
                     /\ Lower(SubSeq(x.code, 1, Len(code_clean))) = Lower(code_clean)
           found  == SelectSeq(prods, Hit)
       IN  (IF found # <<>> THEN <<Head(found)>> ELSE <<>>)
           \o validate_product_codes(prods, Tail(codes))

RECURSIVE SplitCodes(_)
\* [c.strip() for c in str(codes_raw).replace(",", " ").split() if c.strip()]
SplitCodes(s) ==
  LET t == Strip([i \in 1..Len(s) |-> IF s[i] = "," THEN " " ELSE s[i]])
  IN  IF t = <<>> THEN <<>>
      ELSE LET e == RunEnd(t, 1, {t[i] : i \in 1..Len(t)} \ Whitespace)
           IN  <<SubSeq(t, 1, e)>> \o SplitCodes(SubSeq(t, e + 1, Len(t)))

RECURSIVE PendingItems(_)
PendingItems(prods) ==
  IF prods = <<>> THEN <<>>
  ELSE <<[code |-> Head(prods).code, product_name |-> Head(prods).name,
          price |-> Head(prods).price]>> \o PendingItems(Tail(prods))

\* returns [quotes, text]; an exception of a database call propagates
create_pending_quote(d, phone_number, collected_data, conversation_id) ==
  LET codes_raw == Get(collected_data, "codigos_producto")
      by_code   == IF codes_raw # <<>>
                   THEN PendingItems(validate_product_codes(d.products, SplitCodes(codes_raw)))
                   ELSE <<>>
      product_items ==
        IF by_code = <<>> /\ Has(collected_data, "producto")
        THEN PendingItems(search_products_by_keyword(d.products,
                                                     collected_data["producto"], 3))
        ELSE by_code
  IN  [quotes |-> Append(d.quotes,
                    [phone_number    |-> phone_number,
                     conversation_id |-> conversation_id,
                     status          |-> "pending",
                     client_name     |-> Get(collected_data, "nombre"),
                     items           |-> product_items,
                     total           |-> 0]),
       text |-> "quote_confirm"]

determine_pipeline_stage_InterestFirst(collected_data, quote_generated, lead_quality) ==
  LET has_interest == Has(collected_data, "producto") \/ Has(collected_data, "codigos_producto")
  IN  IF has_interest \/ lead_quality \in {"tibio", "caliente"} THEN "cliente_potencial"
      ELSE IF quote_generated THEN "cotizacion_generada"
      ELSE "lead"

determine_pipeline_stage(collected_data, quote_generated, lead_quality) ==
  LET has_interest == Has(collected_data, "producto") \/ Has(collected_data, "codigos_producto")
      has_data     == Has(collected_data, "nombre") \/ Has(collected_data, "correo")
  IN  IF quote_generated THEN "cotizacion_generada"
      ELSE IF has_interest /\ has_data THEN "cliente_potencial"
      ELSE IF has_interest \/ lead_quality \in {"tibio", "caliente"} THEN "cliente_potencial"
      ELSE "lead"

\* returns [leads, conversations]
update_lead_from_ai(d, phone_number, collected_data, lead_quality, pipeline_stage) ==
  IF FindOne(d.leads, phone_number) = 0
  THEN [leads |-> d.leads, conversations |-> d.conversations]
  ELSE [leads |->
          UpdateOne(d.leads, phone_number,
            SetFields(
              SetFields([funnel_stage |-> pipeline_stage],
                        IF lead_quality \in {"caliente", "tibio", "frio"}
                        THEN [classification |-> lead_quality] ELSE EmptyDict),
              IF Has(collected_data, "nombre")
              THEN [name |-> collected_data["nombre"]] ELSE EmptyDict)),
        conversations |->
          IF Has(collected_data, "nombre")
          THEN UpdateOne(d.conversations, phone_number,
                         [contact_name |-> collected_data["nombre"]])
          ELSE d.conversations]

NullTexts == {<<"n","u","l","l">>, <<"n","o","n","e">>, <<"n","/","a">>, <<>>}

RECURSIVE MergeExtracted(_, _, _)
\* for key, value in extracted.items(): ... collected_data[key] = str(value).strip()
MergeExtracted(collected_data, extracted, keys) ==
  IF keys = {} THEN collected_data
  ELSE LET key   == CHOOSE k \in keys : TRUE
           value == extracted[key]
       IN  MergeExtracted(
             IF value # <<>> /\ Strip(value) # <<>> /\ Lower(value) \notin NullTexts
             THEN Put(collected_data, key, Strip(value)) ELSE collected_data,
             extracted, keys \ {key})

NewAiState(phone_number) ==
  [phone_number |-> phone_number, collected_data |-> EmptyDict,
   lead_quality |-> "frio", catalog_sent |-> <<>>, quote_generated |-> FALSE,
   transferred_to_human |-> FALSE, message_count |-> 0]

\* a sequence has the element
InSeq(x, seq) == \E i \in 1..Len(seq) : seq[i] = x

\* if needs_quote and not state.get("quote_generated")
NeedsQuote_Always(ai, state) == ai.needs_quote

NeedsQuote(ai, state) == ai.needs_quote /\ ~DocGet(state, "quote_generated", FALSE)

\* a call raised: what the try block leaves behind
AiRaised(d, sent_, quote_calls, reactivated) ==
  [Outcome(d, sent_, TRUE, FALSE, quote_calls) EXCEPT !.reactivated = reactivated]

\* update_lead_from_ai is called and the try block ends
AiUpdateLead(d, phone_number, ai, f, reactivated, collected_data, pipeline_stage, sent_, quote_calls) ==
  IF f = "lead_update" THEN AiRaised(d, sent_, quote_calls, reactivated)
  ELSE [Outcome([d EXCEPT
                   !.leads = update_lead_from_ai(d, phone_number, collected_data,
                               ai.lead_quality, pipeline_stage).leads,
                   !.conversations = update_lead_from_ai(d, phone_number, collected_data,
                               ai.lead_quality, pipeline_stage).conversations],
                sent_, FALSE, TRUE, quote_calls)
          EXCEPT !.reactivated = reactivated]

\* the pipeline stage, the transfer to a human and the update of the state
\* document; state_quote is the value of quote_generated to store
AiSave(d, phone_number, ai, f, state, reactivated, collected_data, catalogs_sent, sent_, quote_calls, state_quote) ==
  LET transfers == ai.needs_human /\ ~DocGet(state, "transferred_to_human", FALSE)
      sent3     == IF transfers THEN Append(sent_, "transfer_notice") ELSE sent_
  IN  IF f = "save" THEN AiRaised(d, sent3, quote_calls, reactivated)
      ELSE AiUpdateLead(
             [d EXCEPT !.states =
                UpdateState(@, phone_number,
                  [collected_data       |-> collected_data,
                   lead_quality         |-> ai.lead_quality,
                   catalog_sent         |-> catalogs_sent,
                   quote_generated      |-> state_quote,
                   transferred_to_human |->
                     transfers \/ DocGet(state, "transferred_to_human", FALSE),
                   message_count        |-> DocGet(state, "message_count", 0) + 1])],
             phone_number, ai, f, reactivated, collected_data,
             IF ai.needs_quote /\ state_quote THEN "cotizacion_generada"
             ELSE determine_pipeline_stage(collected_data, state_quote, ai.lead_quality),
             sent3, quote_calls)

\* the pending quote q has been created and its confirmation is sent
\* the failure of the delivery of the quote confirmation reaches the handler
AiQuoted_Raising(d, q, phone_number, ai, f, state, reactivated, collected_data, catalogs_sent, sent_) ==
  IF f = "send_quote"
  THEN AiRaised([d EXCEPT !.quotes = q.quotes], Append(sent_, SendQuote(q.text, f)), 1,
                reactivated)
  ELSE AiSave([d EXCEPT !.quotes = q.quotes], phone_number, ai, f, state, reactivated,
              collected_data, catalogs_sent, Append(sent_, SendQuote(q.text, f)), 1, TRUE)

AiQuoted(d, q, phone_number, ai, f, state, reactivated, collected_data, catalogs_sent, sent_) ==
  AiSave([d EXCEPT !.quotes = q.quotes], phone_number, ai, f, state, reactivated,
         collected_data, catalogs_sent, Append(sent_, SendQuote(q.text, f)), 1, TRUE)

\* the quote is handled; found is what the catalog search returned
AiQuote(d, phone_number, conversation_id, ai, f, state, reactivated, collected_data, found) ==
  LET sent_before   == DocGet(state, "catalog_sent", <<>>)
      sent1         == IF found # <<>> THEN <<"ai_response", "catalog">>
                       ELSE <<"ai_response">>
      catalogs_sent == IF found # <<>> THEN Append(sent_before, ai.catalog_search)
                       ELSE sent_before
  IN  IF ~NeedsQuote(ai, state)
      THEN AiSave(d, phone_number, ai, f, state, reactivated, collected_data,
                  catalogs_sent, sent1, 0, DocGet(state, "quote_generated", FALSE))
      ELSE IF f = "quote" THEN AiRaised(d, sent1, 1, reactivated)
      ELSE AiQuoted(d, create_pending_quote(d, phone_number, collected_data,
                                            conversation_id),
                    phone_number, ai, f, state, reactivated, collected_data,
                    catalogs_sent, sent1)

\* the response is sent and the catalog is handled
AiCatalog(d, phone_number, conversation_id, ai, f, state, reactivated, collected_data) ==
  LET searches == /\ ai.catalog_search # <<>>
                  /\ ~InSeq(ai.catalog_search, DocGet(state, "catalog_sent", <<>>))
  IN  IF searches /\ f = "catalog" THEN AiRaised(d, <<"ai_response">>, 0, reactivated)
      ELSE AiQuote(d, phone_number, conversation_id, ai, f, state, reactivated,
                   collected_data,
                   IF searches
                   THEN search_products_by_keyword(d.products, ai.catalog_search, 8)
                   ELSE <<>>)

\* the rest of the try block, from the call of the language model on; ai is
\* what call_llm returns
AiRespond(d, phone_number, conversation_id, ai, f, state, reactivated) ==
  IF f = "llm" THEN AiRaised(d, <<>>, 0, reactivated)
  ELSE AiCatalog(d, phone_number, conversation_id, ai, f, state, reactivated,
                 MergeExtracted(DocGet(state, "collected_data", EmptyDict),
                                ai.extracted_data, DOMAIN ai.extracted_data))

\* the lead of the phone number is lost
Lost(d, phone_number) ==
  /\ FindOne(d.leads, phone_number) # 0
  /\ d.leads[FindOne(d.leads, phone_number)].funnel_stage = "perdido"

\* if lead and lead.get("funnel_stage") == "perdido": the lead and the flags
\* are reset, then the turn goes on
Reactivate(d, state, phone_number, conversation_id, ai, f) ==
  LET reset == [transferred_to_human |-> FALSE, quote_generated |-> FALSE]
      d2    == [d EXCEPT !.leads =
                  UpdateOne(@, phone_number,
                            [funnel_stage |-> "lead", status |-> "active"])]
  IN  IF f = "reactivate_lead" THEN Outcome(d, <<>>, TRUE, FALSE, 0)
      ELSE IF f = "reactivate_state"
        THEN [Outcome(d2, <<>>, TRUE, FALSE, 0) EXCEPT !.reactivated = TRUE]
      ELSE AiRespond([d2 EXCEPT !.states = UpdateState(@, phone_number, reset)],
                     phone_number, conversation_id, ai, f,
                     SetFields(state, reset), TRUE)

\* the try block from the loaded (or just created) state document on, up
\* to the call of the language model
AiLoaded(d, state, phone_number, conversation_id, ai, f) ==
  IF DocGet(state, "transferred_to_human", FALSE)
  THEN Outcome(d, <<>>, FALSE, FALSE, 0)
  ELSE IF Lost(d, phone_number)
    THEN Reactivate(d, state, phone_number, conversation_id, ai, f)
  ELSE AiRespond(d, phone_number, conversation_id, ai, f, state, FALSE)

\* the state document is found, or created
AiLoad(d, phone_number) ==
  IF phone_number \in DOMAIN d.states THEN d
  ELSE [d EXCEPT !.states = UpsertState(@, phone_number, NewAiState(phone_number))]

\* the try block
AiTry(d, phone_number, conversation_id, ai, f) ==
  IF f = "load" THEN Outcome(d, <<>>, TRUE, FALSE, 0)
  ELSE IF phone_number \notin DOMAIN d.states /\ f = "create"
    THEN Outcome(d, <<>>, TRUE, FALSE, 0)
  ELSE AiLoaded(AiLoad(d, phone_number),
                IF phone_number \in DOMAIN d.states
                THEN d.states[phone_number] ELSE NewAiState(phone_number),
                phone_number, conversation_id, ai, f)

\* the except block: the exception is logged and one apology is sent
AiExcept(r) ==
  IF r.raised THEN [r EXCEPT !.sent = Append(@, "apology"), !.caught = TRUE] ELSE r

process_ai_conversation(d, phone_number, conversation_id, ai, f) ==
  AiExcept(AiTry(d, phone_number, conversation_id, ai, f))

-----------------------------------------------------------------------------
(* process_incoming_message (server.py) and the turn of one inbound message *)

\* the conversation and the lead are found or created
\* db.conversations.insert_one(conversation), db.leads.insert_one(lead_doc)
InsertConversation(d, phone_number) ==
  [d EXCEPT
     !.conversations =
        Append(@, [phone_number |-> phone_number, contact_name |-> <<>>,
                   lead_id |-> Len(d.leads) + 1]),
     !.leads =
        Append(@, [phone_number |-> phone_number, name |-> <<>>,
                   status |-> "active", funnel_stage |-> "lead",
                   classification |-> "frio"])]

FindOrCreateConversation(d, phone_number) ==
  IF FindOne(d.conversations, phone_number) # 0 THEN d
  ELSE InsertConversation(d, phone_number)

NoAi ==
  [extracted_data |-> EmptyDict, catalog_search |-> <<>>, lead_quality |-> "frio",
   needs_quote |-> FALSE, needs_human |-> FALSE]

\* what is recorded of the last turn: the message, the state document the
\* handler loaded (pre), the one stored when the handler went on from the
\* load (before), the lead and the number of quotes before, and what the
\* handler did (hit: the failing call was reached; correcting: the step the
\* handler loaded was chosen at correct_data by the turn before)
NoTurn ==
  [phone |-> "none", handler |-> "none", text |-> <<>>, ai |-> NoAi,
   fault |-> "none", pre |-> EmptyDict, before |-> EmptyDict,
   pre_lead |-> EmptyDict, pre_quotes |-> 0,
   raised |-> FALSE, caught |-> FALSE, hit |-> FALSE, extracted |-> FALSE,
   quote_calls |-> 0, reactivated |-> FALSE, correcting |-> FALSE]

\* the number of quotes of a phone number
QuotesOf(qs, phone_number) ==
  Cardinality({i \in 1..Len(qs) : qs[i].phone_number = phone_number})

\* what is known of a phone number's past
NoHistory ==
  [reactivated |-> FALSE, faulted |-> FALSE, quote_sets |-> 0, handled |-> 0,
   correcting |-> FALSE, corrected |-> FALSE, catalogs |-> <<>>, quote_sends |-> 0]

\* the state document of a phone number, if any
StateOf(states, phone_number) ==
  IF phone_number \in DOMAIN states THEN states[phone_number] ELSE EmptyDict

\* the texts the helpers return when a call inside them raised
ErrorTexts == {"quote_error", "catalog_error", "transfer_error"}

\* the quote texts whose delivery failed
UndeliveredTexts ==
  {"quote_undelivered", "quote_no_products_undelivered", "quote_confirm_undelivered"}

\* the send attempts of a quote text
QuoteSends == {"quote", "quote_confirm", "quote_undelivered", "quote_confirm_undelivered"}

\* the texts of get_catalog_message
CatalogTexts == {"catalog", "catalog_updating", "catalog_error"}

\* if msg_stripped == "1": ... else: identify_request_type(message_text)
ChosenType(message_text) ==
  LET msg_stripped == Strip(message_text)
  IN  CASE msg_stripped = <<"1">> -> "cotizacion"
        [] msg_stripped = <<"2">> -> "catalogo"
        [] msg_stripped = <<"3">> -> "ideas"
        [] msg_stripped = <<"4">> -> "temporada"
        [] msg_stripped = <<"5">> -> "ejecutivo"
        [] msg_stripped = <<"6">> -> "urgente"
        [] OTHER -> identify_request_type(message_text)

\* a catalog with products was sent in the turn
CatalogSent(r) == \E i \in 1..Len(r.sent) : r.sent[i] = "catalog"

\* what the catalog of the turn was sent for: the search term of the AI
\* handler, the category of the deterministic handler
CatalogTerm(turn, strat) ==
  IF strat = "ai" THEN turn.ai.catalog_search
  ELSE IF DocGet(turn.pre, "current_step", "identify_need") = "identify_need"
    THEN ChosenType(turn.text)
  ELSE "general"

\* the turn chose the field to correct: the handler loaded correct_data and
\* stored the collect_* step of the chosen field
ChoseField(r, turn, phone_number) ==
  /\ ~r.raised
  /\ r.extracted
  /\ DocGet(turn.pre, "current_step", "identify_need") = "correct_data"
  /\ DocGet(StateOf(r.states, phone_number), "current_step", "identify_need")
       \in DOMAIN step_field_map

\* what is recorded of a turn: r is what the handler left behind, turn the
\* turn as it arrived
Handled(w, r, turn, phone_number, f, strat) ==
  LET set_now == /\ phone_number \in DOMAIN r.states
                 /\ DocGet(r.states[phone_number], "quote_generated", FALSE)
                 /\ ~DocGet(turn.before, "quote_generated", FALSE)
  IN  [d    |-> [w.d EXCEPT !.states = r.states, !.leads = r.leads,
                            !.conversations = r.conversations,
                            !.quotes = r.quotes],
       sent |-> r.sent,
       last |-> [turn EXCEPT !.handler = strat, !.raised = r.raised,
                             !.caught = r.caught,
                             !.hit = r.raised \/ \E i \in 1..Len(r.sent) :
                                                   r.sent[i] \in ErrorTexts,
                             !.extracted = r.extracted,
                             !.quote_calls = r.quote_calls,
                             !.reactivated = r.reactivated],
       hist |-> [w.hist EXCEPT ![phone_number] =
                   [reactivated |-> @.reactivated \/ r.reactivated,
                    faulted     |-> @.faulted \/ f # "none",
                    quote_sets  |-> @.quote_sets + (IF set_now THEN 1 ELSE 0),
                    handled     |-> @.handled + 1,
                    correcting  |-> ChoseField(r, turn, phone_number),
                    corrected   |-> @.corrected \/ ChoseField(r, turn, phone_number),
                    catalogs    |-> IF CatalogSent(r)
                                    THEN Append(@.catalogs, CatalogTerm(turn, strat))
                                    ELSE @.catalogs,
                    quote_sends |-> @.quote_sends +
                                    (IF \E i \in 1..Len(r.sent) : r.sent[i] \in QuoteSends
                                     THEN 1 ELSE 0)]]]

\* the turn as it arrives: pre is the state document the handler computes
\* from
Arrival(w, pre, phone_number, message_text, f, ai) ==
  [NoTurn EXCEPT !.phone = phone_number, !.text = message_text,
                 !.ai = ai, !.fault = f, !.pre = pre,
                 !.before = StateOf(w.d.states, phone_number),
                 !.pre_lead = IF FindOne(w.d.leads, phone_number) = 0 THEN EmptyDict
                              ELSE w.d.leads[FindOne(w.d.leads, phone_number)],
                 !.pre_quotes = QuotesOf(w.d.quotes, phone_number),
                 !.correcting = w.hist[phone_number].correcting]

\* the handler the deployment dispatches to
Dispatch(d1, phone_number, message_text, f, ai, strat) ==
  IF strat = "ai"
  THEN process_ai_conversation(d1, phone_number, FindOne(d1.conversations, phone_number),
                               ai, f)
  ELSE process_intelligent_conversation(d1, phone_number, message_text, f)

\* the handling that passes every message on to the handler
process_incoming_message_Unfiltered(w, phone_number, message_type, body, f, ai, strat) ==
  LET message_text == IF message_type = "text" THEN body ELSE <<>>
  IN  Handled(w,
              Dispatch(FindOrCreateConversation(w.d, phone_number), phone_number,
                       message_text, f, ai, strat),
              Arrival(w, StateOf(w.d.states, phone_number), phone_number,
                      message_text, f, ai),
              phone_number, f, strat)

\* One inbound message, from its arrival at the webhook to the end of its
\* handling.  w = [d, sent, last, hist]; strat is the handler the deployment
\* dispatches to.
process_incoming_message(w, phone_number, message_type, body, f, ai, strat) ==
  LET message_text == IF message_type = "text" THEN body ELSE <<>>
  IN  IF Strip(message_text) = <<>>
      THEN [d    |-> FindOrCreateConversation(w.d, phone_number),
            sent |-> <<>>,
            last |-> Arrival(w, StateOf(w.d.states, phone_number), phone_number,
                             message_text, f, ai),
            hist |-> w.hist]
      ELSE Handled(w,
                   Dispatch(FindOrCreateConversation(w.d, phone_number), phone_number,
                            message_text, f, ai, strat),
                   Arrival(w, StateOf(w.d.states, phone_number), phone_number,
                           message_text, f, ai),
                   phone_number, f, strat)

\* The same handling from the loaded state document on: the handler loaded
\* the document pre earlier, and other handlers may have written since.
finish_message(w, pre, phone_number, message_text, ai, strat) ==
  Handled(w,
          IF strat = "ai"
          THEN AiExcept(AiLoaded(w.d, pre, phone_number,
                                 FindOne(w.d.conversations, phone_number), ai, "none"))
          ELSE IntelligentExcept(IntelligentLoaded(w.d, pre, phone_number,
                                                   message_text, "none")),
          Arrival(w, pre, phone_number, message_text, "none", ai),
          phone_number, "none", strat)

-----
(* Inputs *)

T_hola  == <<"h","o","l","a">>
T_1     == <<"1">>
T_2     == <<"2">>
T_ana   == <<"A","n","a"," ","P","a","z">>
T_acme  == <<"a","c","m","e">>
T_quito == <<"Q","u","i","t","o">>
T_mail  == <<"a","@","b",".","c","o">>
T_termo == <<"t","e","r","m","o">>
T_unas  == <<"u","n","a","s"," ","2","0">>
T_hoy   == <<"h","o","y">>
T_flex  == <<"f","l","e","x","i","b","l","e">>
T_no    == <<"n","o">>
T_si    == <<" ","S","í"," ">>
T_vez   == <<"t","a","l"," ","v","e","z">>
T_100   == <<"1","0","0">>
T_T1    == <<"t","1",","," ","g","2">>
T_0     == <<"0">>
T_99    == <<"9","9">>
T_299   == <<"2","9","9">>
T_300   == <<"3","0","0">>
T_3     == <<"3">>
T_4     == <<"4">>
T_6     == <<"6">>
T_5     == <<"5">>
T_juan  == <<"a","@","b",".","c","o",","," ","A","l">>

\* the texts a customer sends in the explored turns
Texts == {T_1, T_2, T_4, T_5, T_si, T_no, T_vez, T_unas, T_juan, T_termo}

\* the texts of the messages handled while a call fails
FaultTexts == {T_1, T_2, T_si, T_termo}

\* the texts of the concurrently handled messages
ConcTexts == {T_si, T_no, T_vez, T_unas}

\* what the language model answers in the explored turns
AiResults ==
  { NoAi,
    [NoAi EXCEPT !.extracted_data = [producto |-> T_termo], !.catalog_search = T_termo,
                 !.lead_quality = "tibio"],
    [NoAi EXCEPT !.extracted_data = [nombre |-> T_ana, correo |-> T_mail,
                                     cantidad |-> T_100],
                 !.lead_quality = "caliente"],
    [NoAi EXCEPT !.extracted_data = [codigos_producto |-> T_T1],
                 !.lead_quality = "caliente", !.needs_quote = TRUE],
    [NoAi EXCEPT !.needs_quote = TRUE],
    [NoAi EXCEPT !.needs_human = TRUE],
    [NoAi EXCEPT !.lead_quality = "tibio", !.needs_quote = TRUE, !.needs_human = TRUE] }

\* what the language model answers to the concurrently handled messages
ConcAiResults == {r \in AiResults : r.extracted_data = EmptyDict \/ r.catalog_search # <<>>}

\* what the language model answers to the messages handled while a call fails
FaultAiResults == {r \in AiResults : r.extracted_data = EmptyDict \/ r.catalog_search # <<>>}

Catalog ==
  << [code |-> <<"T","1">>, name |-> <<"T","e","r","m","o">>, price |-> 1000],
     [code |-> <<"G","2">>, name |-> <<"G","o","r","r","a">>, price |-> 0] >>

\* a conversation of the deterministic handler, up to the confirmation
DetScript ==
  <<T_hola, T_1, T_ana, T_acme, T_quito, T_mail, T_termo, T_unas, T_hoy, T_flex, T_no>>

\* a conversation of the AI handler
AiScript ==
  << NoAi,
     [NoAi EXCEPT !.extracted_data = [producto |-> T_termo], !.catalog_search = T_termo,
                  !.lead_quality = "tibio"],
     [NoAi EXCEPT !.extracted_data = [nombre |-> T_ana, correo |-> T_mail,
                                      cantidad |-> T_100],
                  !.lead_quality = "caliente"],
     [NoAi EXCEPT !.lead_quality = "caliente", !.needs_quote = TRUE],
     [NoAi EXCEPT !.lead_quality = "caliente", !.needs_human = TRUE] >>

\* the messages classified by identify_request_type: keywords in lower, upper
\* and mixed case, alone and inside a sentence, messages with keywords of
\* several request types, and messages without a keyword
T_verprecio == <<"V","E","R"," ","P","R","E","C","I","O">>

IntentTexts ==
  {<<"P","r","e","c","i","o">>,
   <<"V","E","R"," ","P","R","E","C","I","O">>,
   <<"v","e","r">>,
   <<"C","A","T","Á","L","O","G","O">>,
   <<"u","n","a"," ","i","d","e","a"," ","h","o","y">>,
   <<"N","a","v","i","d","a","d">>,
   <<"v","e","r","a","n","o">>,
   <<"e","v","e","n","t","o"," ","e","m","p","r","e","s","a">>,
   <<"E","m","p","r","e","s","a">>,
   <<"H","O","Y">>,
   <<"p","r","e","m","i","u","m"," ","y","a"," ","m","i","s","m","o">>,
   <<"h","o","l","a">>,
   <<" ","C","u","a","n","t","o"," ","c","u","e","s","t","a"," ">>,
   T_vez, T_no}

\* what the language model extracts and how it rates the lead in the turns
\* that exercise determine_pipeline_stage
StageData ==
  {EmptyDict, [nombre |-> T_ana], [correo |-> T_mail], [producto |-> T_termo],
   [codigos_producto |-> T_T1], [nombre |-> T_ana, producto |-> T_termo]}

StageQualities == {"frio", "tibio", "caliente", "alto"}

StageAiResults ==
  {[NoAi EXCEPT !.extracted_data = e, !.lead_quality = q, !.needs_quote = n] :
     e \in StageData, q \in StageQualities, n \in BOOLEAN}

\* the quantities and the products asked for in the conversations that end
\* in a quote
QuoteCantidades == {T_unas, T_99, T_100, T_299, T_300, T_0, T_vez}

QuoteProductos == {T_termo, T_acme}

\* the texts sent at the confirmation of such a conversation
QuoteTexts == {T_si, T_no, T_vez}

\* the conversation of the script with another product and quantity, up to
\* the confirmation
QuotePast(producto, cantidad) ==
  [i \in 1..Len(DetScript) |->
     [text |-> IF i = 7 THEN producto ELSE IF i = 8 THEN cantidad ELSE DetScript[i],
      ai   |-> NoAi]]

\* the conversations a phone number may have had before the explored turns:
\* every prefix of the script, and for the deterministic handler also the
\* script followed by a negation or by an affirmation
Pasts(strat) ==
  IF strat = "ai"
  THEN {[i \in 1..n |-> [text |-> T_hola, ai |-> AiScript[i]]] : n \in 0..Len(AiScript)}
  ELSE LET Det(texts) == [i \in 1..Len(texts) |-> [text |-> texts[i], ai |-> NoAi]]
       IN  {Det(SubSeq(DetScript, 1, n)) : n \in 0..Len(DetScript)}
           \cup {Det(Append(DetScript, T_no)), Det(Append(DetScript, T_si))}

\* the pasts of the second phone number: none, or a whole conversation
PastsOfOther(strat) ==
  IF strat = "ai"
  THEN {p \in Pasts(strat) : Len(p) \in {0, Len(AiScript)}}
  ELSE {p \in Pasts(strat) : Len(p) = 0 \/ (Len(p) > Len(DetScript) /\ p[Len(p)].text = T_si)}

RECURSIVE Replay(_, _, _)
\* the state after a past: a sequence of messages [phone, text, ai]
Replay(w, past, strat) ==
  IF Len(past) = 0 THEN w
  ELSE LET after == {process_incoming_message(w, past[1].phone, "text", past[1].text,
                                              "none", past[1].ai, strat)}
       IN  CHOOSE r \in {Replay(x, SubSeq(past, 2, Len(past)), strat) : x \in after} : TRUE

\* the messages of a past, as messages of a phone number
From(phone_number, past) ==
  [i \in 1..Len(past) |-> [phone |-> phone_number, text |-> past[i].text,
                           ai |-> past[i].ai]]

EmptyWorld(prods) ==
  [d    |-> [states |-> EmptyDict, leads |-> <<>>, conversations |-> <<>>,
             quotes |-> <<>>, products |-> prods],
   sent |-> <<>>, last |-> NoTurn, hist |-> [p \in Phones |-> NoHistory]]

-----------------------------------------------------------------------------
(* Specification *)

World ==
  [d    |-> [states |-> conversation_states, leads |-> leads,
             conversations |-> conversations, quotes |-> quotes,
             products |-> products],
   sent |-> sent, last |-> last, hist |-> hist]

Becomes(w) ==
  /\ conversation_states' = w.d.states
  /\ leads' = w.d.leads
  /\ conversations' = w.d.conversations
  /\ quotes' = w.d.quotes
  /\ sent' = w.sent
  /\ last' = w.last
  /\ hist' = w.hist
  /\ UNCHANGED <<strategy, products>>

\* the state after the past of the first phone number, then of the second
Past(strat, prods, past1, past2) ==
  Replay(EmptyWorld(prods), From("p1", past1) \o From("p2", past2), strat)

Init ==
  \E strat \in {"det", "ai"}, prods \in {<<>>, Catalog} :
    \E past1 \in Pasts(strat), past2 \in PastsOfOther(strat) :
      \E w \in {Past(strat, prods, past1, past2)} :
          /\ strategy = strat
          /\ products = prods
          /\ conversation_states = w.d.states
          /\ leads = w.d.leads
          /\ conversations = w.d.conversations
          /\ quotes = w.d.quotes
          /\ sent = <<>>
          /\ last = NoTurn
          /\ hist = w.hist
          /\ turns = 0
          /\ tasks = <<>>

\* the failing call of a turn was reached (or the turn has none)
Reached(w, f) ==
  \/ f = "none"
  \/ w.last.hit
  \/ \E i \in 1..Len(w.sent) : w.sent[i] \in UndeliveredTexts

\* a text message arrives and the deterministic handler handles it; the
\* call f fails
DetTurn(p, text, f, bound) ==
  /\ strategy = "det"
  /\ turns < bound
  /\ turns' = turns + 1
  /\ \E w \in {process_incoming_message(World, p, "text", text, f, NoAi, "det")} :
       Reached(w, f) /\ Becomes(w)
  /\ UNCHANGED tasks

\* a text message arrives and the AI handler handles it; ai is the answer of
\* the language model; the call f fails
AiTurn(p, ai, f, bound) ==
  /\ strategy = "ai"
  /\ turns < bound
  /\ turns' = turns + 1
  /\ \E w \in {process_incoming_message(World, p, "text", T_hola, f, ai, "ai")} :
       Reached(w, f) /\ Becomes(w)
  /\ UNCHANGED tasks

DetMessage(p, text) == DetTurn(p, text, "none", MaxTurns)

AiMessage(p, ai) == AiTurn(p, ai, "none", MaxTurns)

\* a message that is no text, or a blank text, arrives
OtherMessage(p, message_type) ==
  /\ turns < MaxTurns
  /\ turns' = turns + 1
  /\ Becomes(process_incoming_message(World, p, message_type, <<" ">>, "none", NoAi,
                                      strategy))
  /\ UNCHANGED tasks

\* PATCH /leads/{lead_id} with funnel_stage "perdido"
update_lead(lead_id) ==
  /\ leads[lead_id].funnel_stage # "perdido"
  /\ leads' = [leads EXCEPT ![lead_id] = SetFields(@, [funnel_stage |-> "perdido"])]
  /\ last' = [NoTurn EXCEPT !.handler = "update_lead"]
  /\ sent' = <<>>
  /\ UNCHANGED <<strategy, products, conversation_states, conversations, quotes,
                 hist, turns, tasks>>

Next ==
  \/ \E p \in Phones, text \in Texts : DetMessage(p, text)
  \/ \E p \in Phones, ai \in AiResults : AiMessage(p, ai)
  \/ \E p \in Phones, message_type \in {"text", "image"} : OtherMessage(p, message_type)
  \/ \E lead_id \in 1..Len(leads) : update_lead(lead_id)

\* messages are handled one at a time and no call fails
Spec == Init /\ [][Next]_vars

\* a message is handled while one call fails
DetFault(p, text, f) == DetTurn(p, text, f, MaxFaultTurns)

AiFault(p, ai, f) == AiTurn(p, ai, f, MaxFaultTurns)

NextFault ==
  \/ \E p \in Phones, text \in FaultTexts, f \in DetFaults \cup {"none"} :
       DetFault(p, text, f)
  \/ \E p \in Phones, ai \in FaultAiResults, f \in AiFaults \cup {"none"} :
       AiFault(p, ai, f)
  \/ \E lead_id \in 1..Len(leads) : update_lead(lead_id)

\* messages are handled one at a time and calls may fail
SpecFault == Init /\ [][NextFault]_vars

\* a message arrives and its handler loads the state document of the phone
\* number; the handler of a first message of the deterministic strategy
\* creates the document and ends
Arrive(p, text, ai) ==
  /\ Len(tasks) < MaxInFlight
  /\ turns < MaxConcTurns
  /\ turns' = turns + 1
  /\ IF strategy = "det" /\ p \notin DOMAIN conversation_states
     THEN /\ Becomes(process_incoming_message(World, p, "text", text, "none", ai, "det"))
          /\ UNCHANGED tasks
     ELSE /\ \E d1 \in {FindOrCreateConversation(World.d, p)} :
               /\ conversations' = d1.conversations
               /\ leads' = d1.leads
               /\ conversation_states' =
                    IF strategy = "ai" THEN AiLoad(d1, p).states ELSE d1.states
               /\ tasks' = Append(tasks,
                              [phone |-> p, text |-> text, ai |-> ai,
                               state |-> IF p \in DOMAIN conversation_states
                                         THEN conversation_states[p]
                                         ELSE NewAiState(p)])
          /\ sent' = <<>>
          /\ last' = [NoTurn EXCEPT !.handler = "arrive", !.phone = p]
          /\ UNCHANGED <<strategy, products, quotes, hist>>

\* the handler of a message goes on from the state document it loaded
Finish(i) ==
  /\ Becomes(finish_message(World, tasks[i].state, tasks[i].phone, tasks[i].text,
                            tasks[i].ai, strategy))
  /\ tasks' = SubSeq(tasks, 1, i - 1) \o SubSeq(tasks, i + 1, Len(tasks))
  /\ UNCHANGED turns

NextConc ==
  \/ \E p \in Phones, text \in ConcTexts :
       strategy = "det" /\ Arrive(p, text, NoAi)
  \/ \E p \in Phones, ai \in ConcAiResults :
       strategy = "ai" /\ Arrive(p, T_hola, ai)
  \/ \E i \in 1..Len(tasks) : Finish(i)

\* messages are handled concurrently: the handlers interleave between the
\* load of the state document and the rest of the handling
SpecConc == Init /\ [][NextConc]_vars

\* a customer of the deterministic handler has answered every question and
\* is asked to confirm
InitQuote ==
  \E prods \in {<<>>, Catalog}, producto \in QuoteProductos, cantidad \in QuoteCantidades :
    \E w \in {Replay(EmptyWorld(prods), From("p1", QuotePast(producto, cantidad)), "det")} :
        /\ strategy = "det"
        /\ products = prods
        /\ conversation_states = w.d.states
        /\ leads = w.d.leads
        /\ conversations = w.d.conversations
        /\ quotes = w.d.quotes
        /\ sent = <<>>
        /\ last = NoTurn
        /\ hist = w.hist
        /\ turns = 0
        /\ tasks = <<>>

\* the customer answers the confirmation
QuoteMessage(text) == DetTurn("p1", text, "none", MaxTurns)

NextQuote == \E text \in QuoteTexts : QuoteMessage(text)

\* the confirmation of a complete conversation, for the quantities and
\* products of QuoteCantidades and QuoteProductos
SpecQuote == InitQuote /\ [][NextQuote]_vars

\* a message arrives and process_incoming_message looks for the conversation
\* of the phone number: conversation = await db.conversations.find_one(...)
Lookup(p, text, ai) ==
  /\ Len(tasks) < MaxInFlight
  /\ turns < MaxConcTurns
  /\ turns' = turns + 1
  /\ tasks' = Append(tasks, [phone |-> p, text |-> text, ai |-> ai,
                             found |-> FindOne(conversations, p) # 0])
  /\ UNCHANGED <<strategy, products, conversation_states, leads, conversations,
                 quotes, sent, last, hist>>

\* the rest of process_incoming_message: if not conversation, the
\* conversation and the lead are inserted; then the handler runs
Complete(i) ==
  /\ \E d1 \in {IF tasks[i].found THEN World.d
                 ELSE InsertConversation(World.d, tasks[i].phone)} :
       Becomes(process_incoming_message([World EXCEPT !.d = d1], tasks[i].phone, "text",
                                        tasks[i].text, "none", tasks[i].ai, strategy))
  /\ tasks' = SubSeq(tasks, 1, i - 1) \o SubSeq(tasks, i + 1, Len(tasks))
  /\ UNCHANGED turns

NextFirst ==
  \/ \E p \in Phones : Lookup(p, T_hola, NoAi)
  \/ \E i \in 1..Len(tasks) : Complete(i)

\* webhook requests are handled concurrently: they interleave between the
\* lookup of the conversation and its creation
SpecFirst == Init /\ [][NextFirst]_vars

\* a conversation of the AI handler goes on
InitStage == Init /\ strategy = "ai"

\* the language model extracts ai.extracted_data and rates the lead
StageMessage(p, ai) == AiTurn(p, ai, "none", MaxStageTurns)

NextStage == \E p \in Phones, ai \in StageAiResults : StageMessage(p, ai)

\* turns of the AI handler over the data, the ratings and the requests for a
\* quote of StageAiResults
SpecStage == InitStage /\ [][NextStage]_vars

\* the customer has been welcomed and is asked what they need
InitIntent ==
  /\ Init
  /\ strategy = "det"
  /\ DocGet(StateOf(conversation_states, "p1"), "current_step", "greeting") = "identify_need"

\* the customer answers in their own words
IntentMessage(p, text) == DetTurn(p, text, "none", MaxIntentTurns)

NextIntent == \E p \in Phones, text \in IntentTexts : IntentMessage(p, text)

\* the answers of IntentTexts to the question of the menu
SpecIntent == InitIntent /\ [][NextIntent]_vars

\* the step at which the next message of the phone number is handled
ExpectedStep(phone_number) ==
  IF phone_number \notin DOMAIN conversation_states THEN "greeting"
  ELSE DocGet(conversation_states[phone_number], "current_step", "identify_need")

\* the six numbers of the menu
MenuChoices == {T_1, T_2, T_3, T_4, T_5, T_6}

\* what the customer answers to a question about their data
HappyAnswers == {T_ana, T_unas}

\* the answers to the question of a step: a text, and a number of units too
\* where the quantity is asked
AnswersAt(current_step) ==
  IF current_step = "collect_cantidad" THEN HappyAnswers ELSE {T_ana}

\* the valid inputs at a step: anything as the first message, a recognised
\* choice at identify_need, an answer at a collect_* step, an affirmation at
\* confirm_data, the number of a field at correct_data; none once transferred
ValidInputs(current_step) ==
  CASE current_step = "greeting" -> {T_hola}
    [] current_step = "identify_need" -> MenuChoices
    [] (\E i \in 1..Len(correction_map) : correction_map[i] = current_step) ->
         AnswersAt(current_step)
    [] current_step = "confirm_data" -> {T_si}
    [] current_step = "correct_data" -> {T_1, T_5}
    [] OTHER -> {}

\* the deterministic handler serves, with the first customer anywhere in a
\* conversation
InitHappy == Init /\ strategy = "det"

\* the first customer sends a valid input for the step they are at
ValidMessage(p, text) ==
  /\ text \in ValidInputs(ExpectedStep(p))
  /\ DetTurn(p, text, "none", MaxHappyTurns)

NextHappy ==
  \E text \in MenuChoices \cup HappyAnswers \cup {T_hola, T_si} : ValidMessage("p1", text)

\* the first customer has a valid input to give and the webhook takes it
CustomerAnswers ==
  /\ ValidInputs(ExpectedStep("p1")) # {}
  /\ turns < MaxHappyTurns
  /\ turns' = turns + 1

\* the customer always gives valid input and no call fails; a customer who has
\* a valid input to give does give it (every step of NextHappy that takes a
\* message is a step of CustomerAnswers, and the other way round)
SpecHappy == InitHappy /\ [][NextHappy]_vars /\ WF_turns(CustomerAnswers)

-----------------------------------------------------------------------------
(* Properties *)

\* the state document of the phone number of the last turn
LastState == StateOf(conversation_states, last.phone)

\* the last step was a handling of a text message by a handler
LastHandled == last.handler \in {"det", "ai"}

\* C1: for messages of one phone number handled one at a time, with no
\* failing call and no reactivation, at most one Quote record is created
\* for the phone number and quote_generated changes from false to true at
\* most once.
C1_AtMostOneQuote ==
  \A p \in Phones :
    (~hist[p].reactivated /\ ~hist[p].faulted) =>
      /\ QuotesOf(quotes, p) <= 1
      /\ hist[p].quote_sets <= 1

\* C1: a quote is asked for again after the quote of the phone number was
\* created, and there is still one quote
C1_Witness ==
  /\ last.handler = "ai"
  /\ last.ai.needs_quote
  /\ DocGet(last.pre, "quote_generated", FALSE)
  /\ ~hist[last.phone].reactivated
  /\ QuotesOf(quotes, last.phone) = 1
  /\ hist[last.phone].quote_sets = 1

\* the affirmations as the claim C2 lists them
C2_Listed ==
  {<<"s","i">>, <<"s","í">>, <<"s">>, <<"c","o","r","r","e","c","t","o">>,
   <<"o","k">>, <<"y","e","s">>, <<"e","s","t","á"," ","b","i","e","n">>,
   <<"c","o","n","f","i","r","m","o">>}

\* the deterministic handler has handled a listed affirmation at confirm_data
C2_Affirmed ==
  /\ last.handler = "det"
  /\ DocGet(last.pre, "current_step", "identify_need") = "confirm_data"
  /\ ~DocGet(last.pre, "transferred_to_human", FALSE)
  /\ Lower(Strip(last.text)) \in C2_Listed

\* C2: in the deterministic handler, a turn at confirm_data whose trimmed,
\* lower-cased message is a listed affirmation triggers quote generation
\* exactly once, sets quote_generated and transferred_to_human, and ends
\* with current_step = transfer_human.
C2_ConfirmGate ==
  C2_Affirmed =>
    /\ last.quote_calls = 1
    /\ DocGet(LastState, "quote_generated", FALSE) = TRUE
    /\ DocGet(LastState, "transferred_to_human", FALSE) = TRUE
    /\ DocGet(LastState, "current_step", "absent") = "transfer_human"

\* C2: " Sí " was handled at confirm_data and the quote exists
C2_Witness ==
  /\ C2_Affirmed
  /\ last.text = T_si
  /\ QuotesOf(quotes, last.phone) = last.pre_quotes + 1

\* C3: once transferred_to_human is true, a later message (absent a
\* reactivation) leaves current_step, collected_data, request_type and the
\* quotes unchanged, performs no extraction, and produces at most the one
\* courtesy reply.
C3_TerminalSilent ==
  (LastHandled /\ DocGet(last.pre, "transferred_to_human", FALSE) /\ ~last.reactivated) =>
    /\ \A k \in {"current_step", "collected_data", "request_type"} :
         DocGet(LastState, k, "absent") = DocGet(last.pre, k, "absent")
    /\ QuotesOf(quotes, last.phone) = last.pre_quotes
    /\ ~last.extracted
    /\ sent \in {<<>>, <<"courtesy">>}

\* C3: an affirmation was handled after the transfer and the courtesy reply
\* was sent
C3_Witness ==
  /\ last.handler = "det"
  /\ DocGet(last.pre, "transferred_to_human", FALSE)
  /\ last.text = T_si
  /\ sent = <<"courtesy">>

\* the lead of the phone number of the last turn
LastLead ==
  IF FindOne(leads, last.phone) = 0 THEN EmptyDict
  ELSE leads[FindOne(leads, last.phone)]

\* C4: whenever a text message arrives from a phone number whose lead has
\* funnel_stage perdido, whatever the conversation flags were, the handling
\* takes the lead out of perdido with status active and resets the flags
\* (the reactivation happens).
C4_Reactivation ==
  (last.handler = "ai" /\ DocGet(last.pre_lead, "funnel_stage", "none") = "perdido"
     /\ ~last.raised) =>
    /\ last.reactivated
    /\ DocGet(LastLead, "funnel_stage", "none") # "perdido"
    /\ DocGet(LastLead, "status", "none") = "active"

\* C5: transferred_to_human and quote_generated never change from true to
\* false in a step other than the reactivation of a lost lead.
C5_FlagsMonotone ==
  [][\A p \in Phones, k \in {"transferred_to_human", "quote_generated"} :
       (DocGet(StateOf(conversation_states, p), k, FALSE) = TRUE
          /\ DocGet(StateOf(conversation_states', p), k, FALSE) # TRUE)
       => (last'.phone = p /\ last'.reactivated)]_vars

\* the apologies among the send attempts of the last turn
Apologies == {i \in 1..Len(sent) : sent[i] = "apology"}

\* C6: if a side-effect call raises while a message is handled, the handler
\* catches it at the top level and attempts to send exactly one generic
\* apology for the message.
C6_OneApology ==
  (LastHandled /\ last.hit) => (last.caught /\ Cardinality(Apologies) = 1)

\* C7: no handler of the deterministic strategy computes from a loaded
\* state document that another handler has rewritten since, overwriting
\* that handler's current_step, collected_data or message_count.
C7_SingleWriter ==
  (last.handler = "det" /\ last.extracted /\ ~last.raised) =>
    \A k \in {"current_step", "collected_data", "message_count"} :
      DocGet(last.pre, k, "absent") = DocGet(last.before, k, "absent")

\* the documents of a phone number in a collection
DocsOf(coll, phone_number) == SelectSeq(coll, LAMBDA x : x.phone_number = phone_number)

\* C8: handling a message of phone number A, also when the handling ends in
\* the caught-exception fallback, never changes the state document, the
\* lead or the quotes of another phone number B.
C8_Isolation ==
  [][last'.handler \in {"det", "ai"} =>
       \A q \in Phones \ {last'.phone} :
         /\ StateOf(conversation_states', q) = StateOf(conversation_states, q)
         /\ DocsOf(leads', q) = DocsOf(leads, q)
         /\ DocsOf(quotes', q) = DocsOf(quotes, q)]_vars

\* C8: a handling ended in the fallback while another phone number has a
\* state document, a lead and a quote
C8_Witness ==
  /\ LastHandled
  /\ last.caught
  /\ \E q \in Phones \ {last.phone} :
       /\ q \in DOMAIN conversation_states
       /\ DocsOf(leads, q) # <<>>
       /\ DocsOf(quotes, q) # <<>>

\* C9: the current_step stored after a message is processed is one of the
\* enumerated steps, and no exception leaves the handler.
C9_StepEnumerated ==
  (last.handler = "det" /\ "current_step" \in DOMAIN LastState) =>
    /\ LastState.current_step \in CONVERSATION_STEPS
    /\ last.raised => last.caught

\* a text has a digit
HasDigit(s) == \E i \in 1..Len(s) : s[i] \in Digits

\* C10: after a message handled at collect_cantidad, cantidad is the first
\* standalone run of digits of the message if it has one, and keeps its
\* value if the message has no digit.
C10_Cantidad ==
  (last.handler = "det" /\ ~last.raised
     /\ DocGet(last.pre, "current_step", "identify_need") = "collect_cantidad"
     /\ ~DocGet(last.pre, "transferred_to_human", FALSE)) =>
    LET cantidad == Get(DocGet(LastState, "collected_data", EmptyDict), "cantidad")
        before   == Get(DocGet(last.pre, "collected_data", EmptyDict), "cantidad")
    IN  /\ NumberMatch(last.text) # <<>> => cantidad = NumberMatch(last.text)
        /\ ~HasDigit(last.text) => cantidad = before

\* the deterministic handler has run the state machine on the last message
\* and saved the state
LastSaved == last.handler = "det" /\ last.extracted /\ ~last.raised

\* the step the handler of the last message loaded
LastStep == DocGet(last.pre, "current_step", "identify_need")

\* collected_data as the last turn found it and as it left it
DataBefore == DocGet(last.pre, "collected_data", EmptyDict)
DataAfter == DocGet(LastState, "collected_data", EmptyDict)

PriceOf(product_name) ==
  products[MinOf({i \in 1..Len(products) : products[i].name = product_name})].price

\* the base price of a line item: the price of the product, 5.00 when it
\* has none
BaseOf(item) ==
  IF PriceOf(item.product_name) = 0 THEN 500 ELSE PriceOf(item.product_name)

\* the line items of the generated quotes
QuotedItems ==
  {quotes[i].items[j] : <<i, j>> \in
     {x \in (1..Len(quotes)) \X (1..9) :
        quotes[x[1]].status = "auto" /\ x[2] <= Len(quotes[x[1]].items)}}

\* C12: the unit price of every line item is the base price with 15% off
\* from 300 units, 10% off from 100 to 299 units and no discount below 100
\* units, and the subtotal is unit price x quantity; base price 10.00 at
\* 100 units gives 9.00 and 900.00.  (Unit prices and subtotals are in
\* ten-thousandths of the price unit.)
C12_Discount ==
  \A item \in QuotedItems :
    /\ item.quantity >= 300 => item.unit_price = (BaseOf(item) * 85)
    /\ (item.quantity >= 100 /\ item.quantity < 300)
         => item.unit_price = (BaseOf(item) * 90)
    /\ item.quantity < 100 => item.unit_price = BaseOf(item) * 100
    /\ item.subtotal = item.unit_price * item.quantity
    /\ (BaseOf(item) = 1000 /\ item.quantity = 100)
         => (item.unit_price = 90000 /\ item.subtotal = 9000000)
    /\ (BaseOf(item) = 1000 /\ item.quantity = 99) => item.unit_price = 100000
    /\ (BaseOf(item) = 1000 /\ item.quantity = 299) => item.unit_price = 90000
    /\ (BaseOf(item) = 1000 /\ item.quantity = 300) => item.unit_price = 85000

\* C12: a product of base price 10.00 was quoted at 100 units for 9.00 each
\* and 900.00 in all
C12_Witness ==
  \E item \in QuotedItems :
    /\ BaseOf(item) = 1000
    /\ item.quantity = 100
    /\ item.unit_price = 90000
    /\ item.subtotal = 9000000
    /\ Get(DataAfter, "cantidad") = T_100

\* the quote created last for the phone number of the last turn
LastQuote ==
  quotes[MaxOf({i \in 1..Len(quotes) : quotes[i].phone_number = last.phone})]

\* the quantities a quote lists for its first product
QuantitiesOf(q) ==
  LET mine == SelectSeq(q.items, LAMBDA x : x.product_name = q.items[1].product_name)
  IN  [j \in 1..Len(mine) |-> mine[j].quantity]

\* the last turn generated a quote
LastQuoted ==
  /\ LastSaved
  /\ LastStep = "confirm_data"
  /\ QuotesOf(quotes, last.phone) = last.pre_quotes + 1

\* C13: a generated quote lists for each product the one parsed quantity
\* whenever cantidad has an integer, whatever its value, and the three
\* quantities 50, 100 and 300 when it has none.
C13_Quantities ==
  LastQuoted =>
    LET run == FirstDigitRun(Get(DataAfter, "cantidad"))
    IN  QuantitiesOf(LastQuote) = IF run # <<>> THEN <<ToInt(run)>> ELSE <<50, 100, 300>>

\* the last turn attempted to send a quote text
LastSentQuote == LastHandled /\ \E i \in 1..Len(sent) : sent[i] \in QuoteSends

\* C14: in every turn that produces quote text the Quote record, with its
\* line items and total, is stored when the text is sent, and it stays
\* stored when the delivery of the text or a later call of the turn fails.
C14_PersistedFirst ==
  LastSentQuote =>
    /\ QuotesOf(quotes, last.phone) = last.pre_quotes + 1
    /\ {"items", "total"} \subseteq DOMAIN LastQuote
    /\ LastQuote.status = "auto" =>
         /\ LastQuote.items # <<>>
         /\ LastQuote.total = SumSubtotals(LastQuote.items)

\* C14: the delivery of the quote text failed and the Quote record is there
C14_Witness ==
  /\ LastHandled
  /\ last.fault = "send_quote"
  /\ \E i \in 1..Len(sent) : sent[i] = "quote_undelivered"
  /\ QuotesOf(quotes, last.phone) = last.pre_quotes + 1
  /\ LastQuote.items # <<>>

\* C15: products are resolved by the product codes, else by keyword on
\* producto, else by a sample of the catalog, so that with a catalog that
\* has products every generated quote has at least one line item.
C15_NeverEmpty ==
  products # <<>> => \A i \in 1..Len(quotes) : quotes[i].items # <<>>

\* C16: the turn that answers the question of the one field chosen at
\* correct_data stores confirm_data again, with that field updated and
\* every other collected field unchanged.
C16_BackToConfirm ==
  (LastSaved /\ last.correcting) =>
    /\ DocGet(LastState, "current_step", "absent") = "confirm_data"
    /\ \A k \in DOMAIN DataBefore \ {step_field_map[LastStep]} :
         Get(DataAfter, k) = DataBefore[k]

\* C17: the question of a collect_* step is not asked when the field of
\* the step already has a value from an earlier message: the flow goes on
\* to the next field.  (For conversations in which no field was chosen for
\* correction.)
C17_NoReask ==
  (LastSaved /\ ~hist[last.phone].corrected
     /\ DocGet(LastState, "current_step", "absent") \in DOMAIN step_field_map) =>
    ~Has(DataBefore, step_field_map[LastState.current_step])

\* the negations as the claim C18 lists them
C18_Negations ==
  {<<"n","o">>, <<"n">>, <<"c","o","r","r","e","g","i","r">>,
   <<"c","a","m","b","i","a","r">>}

\* the state machine has handled, at confirm_data, a message that is
\* neither an affirmation nor a negation
C18_Undecided ==
  /\ LastSaved
  /\ LastStep = "confirm_data"
  /\ Lower(Strip(last.text)) \notin C2_Listed \cup C18_Negations

\* the step is still confirm_data, no quote was generated and the
\* conversation was not transferred
C18_Stays ==
  /\ DocGet(LastState, "current_step", "absent") = "confirm_data"
  /\ last.quote_calls = 0
  /\ QuotesOf(quotes, last.phone) = last.pre_quotes
  /\ ~DocGet(LastState, "quote_generated", FALSE)
  /\ ~DocGet(LastState, "transferred_to_human", FALSE)

C19_AtNeed ==
  /\ last.handler = "det"
  /\ "current_step" \in DOMAIN last.pre
  /\ LastStep = "identify_need"
  /\ ~DocGet(last.pre, "transferred_to_human", FALSE)

\* the message is no menu choice and no keyword of a request type is in it
C19_Unmatched ==
  /\ Strip(last.text) \notin {<<"1">>, <<"2">>, <<"3">>, <<"4">>, <<"5">>, <<"6">>}
  /\ identify_request_type(last.text) = "general"

C20_CountsMessages ==
  \A p \in Phones :
    (p \in DOMAIN conversation_states /\ ~hist[p].faulted) =>
      DocGet(conversation_states[p], "message_count", 0) = hist[p].handled

\* C21: once request_type of a conversation is set, no later message
\* changes it, the reset of a reactivated conversation apart; a second
\* message handled at identify_need keeps the request_type the first one
\* stored.
C21_TypeSetOnce ==
  [][\A p \in Phones :
       DocGet(StateOf(conversation_states, p), "request_type", "None") # "None"
       => DocGet(StateOf(conversation_states', p), "request_type", "None")
            = DocGet(StateOf(conversation_states, p), "request_type", "None")
          \/ last'.reactivated]_vars

\* the values a turn can take from its message: for the deterministic
\* handler the trimmed message, its email token, its first digit run and
\* the normalised refusal of a personalisation; for the AI handler the
\* trimmed values the model extracted from the message
TurnValues ==
  IF last.handler = "ai"
  THEN {Strip(last.ai.extracted_data[k]) : k \in DOMAIN last.ai.extracted_data}
  ELSE {Strip(last.text), EmailMatch(Strip(last.text)), NumberMatch(Strip(last.text))}
       \cup (IF Lower(Strip(last.text)) \in NoPersonalizacion
             THEN {SinPersonalizacion} ELSE {})

\* the keys of collected_data whose value the last turn changed
ChangedKeys == {k \in DOMAIN DataBefore \cap DOMAIN DataAfter : DataAfter[k] # DataBefore[k]}

\* C22, for a handler that saves what it loaded and changed: the turn
\* removes no key of collected_data; a value it changes is a value taken
\* from the message of the turn; and a turn of the deterministic handler
\* whose message has no email-shaped token changes no field but the field
\* of the step.
C22_Accumulates ==
  LastHandled =>
    /\ DOMAIN DataBefore \subseteq DOMAIN DataAfter
    /\ \A k \in ChangedKeys : DataAfter[k] \in TurnValues
    /\ (last.handler = "det" /\ EmailMatch(Strip(last.text)) = <<>>)
       => \A k \in ChangedKeys :
            LastStep \in DOMAIN step_field_map /\ k = step_field_map[LastStep]

\* C22: a key once present in the collected_data of a conversation is never
\* removed, whatever the steps of the handlers.
C22_KeysKept ==
  [][\A p \in DOMAIN conversation_states :
       DOMAIN DocGet(conversation_states[p], "collected_data", EmptyDict)
         \subseteq DOMAIN DocGet(StateOf(conversation_states', p), "collected_data", EmptyDict)]_vars

\* C23: in no conversation the catalog of a category or of a search term
\* was sent twice.
C23_CatalogOnce ==
  \A p \in Phones :
    \A i, j \in 1..Len(hist[p].catalogs) :
      hist[p].catalogs[i] = hist[p].catalogs[j] => i = j

\* PIPELINE_STAGES
PIPELINE_STAGES == {"lead", "cliente_potencial", "cotizacion_generada", "pedido", "perdido"}

\* C24: a turn of the bot on a lead whose funnel_stage is a stage of the
\* pipeline, a confirmation with its transfer to a human included, leaves
\* the funnel_stage of every lead a stage of the pipeline.
C24_PipelineStages ==
  (LastHandled /\ DocGet(last.pre_lead, "funnel_stage", "lead") \in PIPELINE_STAGES)
  => \A i \in 1..Len(leads) :
       leads[i].phone_number = last.phone => leads[i].funnel_stage \in PIPELINE_STAGES

\* the last turn ran the AI handler up to the update of the lead
LastStaged == last.handler = "ai" /\ last.extracted /\ ~last.raised

\* C25: the stage the AI handler stores from determine_pipeline_stage is
\* cotizacion_generada whenever quote_generated is true, whatever the
\* collected data and the lead quality; otherwise cliente_potencial when
\* producto or codigos_producto is present or lead_quality is tibio or
\* caliente; otherwise lead.  It is always one of the three.
C25_Stage ==
  LastStaged =>
    /\ LastLead.funnel_stage =
         (IF DocGet(LastState, "quote_generated", FALSE) THEN "cotizacion_generada"
          ELSE IF \/ Has(DataAfter, "producto")
                  \/ Has(DataAfter, "codigos_producto")
                  \/ last.ai.lead_quality \in {"tibio", "caliente"}
            THEN "cliente_potencial"
          ELSE "lead")
    /\ LastLead.funnel_stage \in {"cotizacion_generada", "cliente_potencial", "lead"}

\* C25: a turn that asks for no quote, in a conversation whose quote was
\* generated before, with a product and a lead of quality frio: the stage
\* is cotizacion_generada
C25_Witness ==
  /\ LastStaged
  /\ ~last.ai.needs_quote
  /\ last.ai.lead_quality = "frio"
  /\ DocGet(last.pre, "quote_generated", FALSE)
  /\ Has(DataAfter, "producto")
  /\ LastLead.funnel_stage = "cotizacion_generada"

\* the order of the request types
IntentOrder == <<"cotizacion", "catalogo", "ideas", "temporada", "ejecutivo", "urgente">>

\* the keywords of a request type
KeywordsOf(type) ==
  UNION {REQUEST_TYPES[n].keywords : n \in {m \in 1..Len(REQUEST_TYPES) : REQUEST_TYPES[m].type = type}}

\* a keyword of the type is a substring of the message, letter case apart
MatchesType(type, message) ==
  \E i \in 1..Len(message), j \in 1..Len(message) :
    Lower(SubSeq(message, i, j)) \in KeywordsOf(type)

\* the first type of IntentOrder that matches the message, or general
FirstIntent(message) ==
  LET matching == {n \in 1..Len(IntentOrder) : MatchesType(IntentOrder[n], message)}
  IN  IF matching = {} THEN "general" ELSE IntentOrder[MinOf(matching)]

\* the last turn classified its message: it was handled at identify_need
\* and is no number of the menu
LastClassified ==
  /\ LastSaved
  /\ LastStep = "identify_need"
  /\ ~(Len(Strip(last.text)) = 1 /\ Strip(last.text)[1] \in Digits)

\* C26: the request type the classifier returns for a message is the first
\* of cotizacion, catalogo, ideas, temporada, ejecutivo, urgente one of
\* whose keywords is a substring of the message, letter case apart, and
\* general when none matches.
C26_FirstMatch ==
  LastClassified => DocGet(LastState, "request_type", "None") = FirstIntent(last.text)

\* C26: 'VER PRECIO', which has a keyword of catalogo and then one of
\* cotizacion, both in upper case, was classified as cotizacion
C26_Witness ==
  /\ LastClassified
  /\ last.text = T_verprecio
  /\ MatchesType("catalogo", last.text)
  /\ LastState.request_type = "cotizacion"

\* C27: the first text message of a phone number never seen before leaves
\* a conversation state whose step, where the state has one, is
\* identify_need, a lead at funnel_stage lead with classification frio,
\* and exactly one outbound message.
C27_FirstMessage ==
  (LastHandled /\ last.pre = EmptyDict /\ last.pre_lead = EmptyDict) =>
    /\ last.phone \in DOMAIN conversation_states
    /\ DocGet(LastState, "current_step", "identify_need") = "identify_need"
    /\ LastLead # EmptyDict
    /\ LastLead.funnel_stage = "lead"
    /\ LastLead.classification = "frio"
    /\ Len(sent) = 1

\* C28: there is at most one conversation state, one conversation and one
\* lead for a phone number, also when two first messages of a phone number
\* are handled concurrently.
C28_OnePerPhone ==
  \A p \in Phones :
    /\ Cardinality({i \in 1..Len(conversations) : conversations[i].phone_number = p}) <= 1
    /\ Cardinality({i \in 1..Len(leads) : leads[i].phone_number = p}) <= 1
    /\ p \in DOMAIN conversation_states => conversation_states[p].phone_number = p

\* C29: for the deterministic handler, affirmations of a phone number at
\* confirm_data that are handled concurrently included, at most one quote
\* of the phone number is created and at most one quote text is sent to it.
C29_OneQuoteSent ==
  strategy = "det" =>
    \A p \in Phones :
      /\ QuotesOf(quotes, p) <= 1
      /\ hist[p].quote_sends <= 1

\* C30: a message without an email-shaped token handled at collect_correo
\* is stored, trimmed, as correo, whatever correo was before, and the
\* conversation goes on to the next question: the quantity when a product
\* is known, the product otherwise.
C30_CorreoVerbatim ==
  (LastSaved /\ LastStep = "collect_correo" /\ EmailMatch(Strip(last.text)) = <<>>) =>
    /\ Get(DataAfter, "correo") = Strip(last.text)
    /\ IF Has(DataAfter, "producto")
       THEN LastState.current_step = "collect_cantidad" /\ sent = <<"ask_cantidad">>
       ELSE LastState.current_step = "collect_producto" /\ sent = <<"ask_producto">>

\* C30: 'tal vez' was handled at collect_correo of a conversation whose
\* correo was an email address: correo is 'tal vez' and the product is asked
C30_Witness ==
  /\ LastSaved
  /\ LastStep = "collect_correo"
  /\ last.text = T_vez
  /\ EmailMatch(Get(DataBefore, "correo")) # <<>>
  /\ Get(DataAfter, "correo") = T_vez
  /\ sent = <<"ask_producto">>

\* the message has the name of a product of the catalog, letter case apart
NamesProduct(message_text) ==
  \E i \in 1..Len(products) : Contains(Lower(message_text), Lower(products[i].name))

\* the last turn was handled at collect_correo
LastAtCorreo == LastSaved /\ LastStep = "collect_correo"

\* C31: after a message handled at collect_correo the step is
\* collect_cantidad exactly when that message names a product, and
\* collect_producto otherwise.
C31_SkipsWhenNamed ==
  LastAtCorreo =>
    /\ LastState.current_step \in {"collect_cantidad", "collect_producto"}
    /\ LastState.current_step = "collect_cantidad" <=> NamesProduct(last.text)

\* C31, amended: after a message handled at collect_correo the step is
\* collect_cantidad exactly when collected_data held a producto before the
\* message, and collect_producto otherwise, whatever the message names.
C31_SkipsWhenKnown ==
  LastAtCorreo =>
    /\ LastState.current_step \in {"collect_cantidad", "collect_producto"}
    /\ LastState.current_step = "collect_cantidad" <=> Has(DataBefore, "producto")
    /\ Get(DataAfter, "producto") = Get(DataBefore, "producto")

\* C31: the customer went back to correct the correo of a conversation that
\* has a producto, and the answer, which names no product, leads to the
\* question for the quantity
C31_Witness ==
  /\ LastAtCorreo
  /\ Has(DataBefore, "producto")
  /\ ~NamesProduct(last.text)
  /\ LastState.current_step = "collect_cantidad"
  /\ sent = <<"ask_cantidad">>

\* C32: a message that is no text, or whose text is blank, does not reach a
\* handler: the step that takes it changes no conversation state, extracts
\* nothing, sends nothing and creates no quote.
C32_NonTextIgnored ==
  [][(last'.phone \in Phones /\ Strip(last'.text) = <<>>) =>
       /\ last'.handler = "none"
       /\ ~last'.extracted
       /\ conversation_states' = conversation_states
       /\ quotes' = quotes
       /\ sent' = <<>>]_vars

\* C32: an image arrived from a phone number in the middle of a
\* conversation, and the conversation state is as it was
C32_Witness ==
  /\ last.phone \in Phones
  /\ last.text = <<>>
  /\ last.handler = "none"
  /\ DocGet(LastState, "message_count", 0) > 1
  /\ LastState = last.before
  /\ sent = <<>>

\* the delivery of an outbound message of the last turn failed
LastUndelivered ==
  LastHandled /\ \E i \in 1..Len(sent) : sent[i] \in UndeliveredTexts

\* C33: a message whose delivery fails is attempted once and not again; the
\* failure raises nothing in the handler, which sends no apology for it, and
\* the turn is persisted as if the message had been delivered: the quote
\* flag is set, the message is counted, and the deterministic handler is at
\* transfer_human.
C33_FailedSendSwallowed ==
  LastUndelivered =>
    /\ ~last.raised /\ ~last.caught
    /\ Cardinality({i \in 1..Len(sent) : sent[i] \in UndeliveredTexts}) = 1
    /\ \A i \in 1..Len(sent) :
         sent[i] \notin {"quote", "quote_no_products", "quote_confirm", "apology"}
    /\ DocGet(LastState, "quote_generated", FALSE)
    /\ DocGet(LastState, "message_count", 0) = DocGet(last.pre, "message_count", 0) + 1
    /\ last.handler = "det" =>
         /\ LastState.current_step = "transfer_human"
         /\ LastState.transferred_to_human

\* C33: the delivery of the quote confirmation of the AI handler failed, and
\* the transfer notice that follows it in the turn was sent
C33_Witness ==
  /\ LastUndelivered
  /\ last.handler = "ai"
  /\ sent = <<"ai_response", "quote_confirm_undelivered", "transfer_notice">>
  /\ QuotesOf(quotes, last.phone) = last.pre_quotes + 1

\* quote_generated of a state document agrees with the number of quotes
FlagAgrees(state, count) == DocGet(state, "quote_generated", FALSE) <=> count >= 1

\* C34: a turn on a conversation whose quote_generated agreed with the
\* existence of a quote of the phone number, the reactivation of a lost lead
\* apart, ends with the two in agreement: the flag is true if and only if
\* a quote of the phone number exists.
C34_FlagIffQuote ==
  (LastHandled /\ ~last.reactivated /\ FlagAgrees(last.before, last.pre_quotes))
  => FlagAgrees(LastState, QuotesOf(quotes, last.phone))

\* current_step of a state document is transfer_human exactly when its
\* transferred_to_human is true
StepAgrees(state) ==
  DocGet(state, "current_step", "greeting") = "transfer_human"
    <=> DocGet(state, "transferred_to_human", FALSE)

\* C35: a turn of the deterministic handler on a state whose current_step
\* is transfer_human exactly when transferred_to_human is true ends in
\* such a state, also when a write of transfer_to_human or the final write
\* of the state fails.
C35_StepIffTransferred ==
  (last.handler = "det" /\ StepAgrees(last.before)) => StepAgrees(LastState)

\* a state document as the handlers read it: a missing document reads as
\* the document of a new conversation
AsRead(state) ==
  IF state # EmptyDict THEN state
  ELSE IF strategy = "ai" THEN NewAiState(last.phone)
  ELSE NewIntelligentState(last.phone)

\* C36: a turn that ends in the fallback for a caught exception leaves the
\* conversation state of the phone number as it was before the message.
C36_FallbackRestores ==
  (LastHandled /\ last.caught) => AsRead(LastState) = AsRead(last.before)

\* C37: a turn of the AI handler creates a quote, or sets quote_generated,
\* only when the collected_data of the turn holds correo, cantidad and
\* producto or codigos_producto.
C37_QuoteNeedsData ==
  (/\ last.handler = "ai"
   /\ \/ QuotesOf(quotes, last.phone) > last.pre_quotes
      \/ DocGet(LastState, "quote_generated", FALSE)
           /\ ~DocGet(last.before, "quote_generated", FALSE))
  => /\ Has(DataAfter, "correo")
     /\ Has(DataAfter, "cantidad")
     /\ Has(DataAfter, "producto") \/ Has(DataAfter, "codigos_producto")

\* the rank of a stage of the pipeline in the order lead <
\* cliente_potencial < cotizacion_generada < pedido; 0 for any other stage
StageRank(stage) ==
  CASE stage = "lead" -> 1
    [] stage = "cliente_potencial" -> 2
    [] stage = "cotizacion_generada" -> 3
    [] stage = "pedido" -> 4
    [] OTHER -> 0

\* C38: a turn of the bot on a lead at a stage of the order lead <
\* cliente_potencial < cotizacion_generada < pedido does not leave the lead
\* at an earlier stage of the order.
C38_NoStepBack ==
  (LastHandled /\ last.pre_lead # EmptyDict /\ StageRank(last.pre_lead.funnel_stage) > 0)
  => ~(/\ StageRank(LastLead.funnel_stage) > 0
       /\ StageRank(LastLead.funnel_stage) < StageRank(last.pre_lead.funnel_stage))

\* the first customer has been handed to a human with the flag of the quote set
Transferred ==
  /\ "p1" \in DOMAIN conversation_states
  /\ conversation_states["p1"].current_step = "transfer_human"
  /\ DocGet(conversation_states["p1"], "quote_generated", FALSE)

====
